---- MODULE Spec2Model ----
(***************************************************************************)
(* LingoTax backend: the document ingestion pipeline and its lifecycle     *)
(* state machine (routers/documents.py), the streaming answer              *)
(* orchestrators for document-grounded and for general questions           *)
(* (rag/chain.py), the chat endpoints (routers/chat.py), and single calls  *)
(* of the embedder, the retriever, the chunker and the field locator       *)
(* (rag/embedder.py, rag/retriever.py, rag/chunker.py,                     *)
(* rag/highlightExtractor.py).                                             *)
(*                                                                         *)
(* One document is modelled.  The documents table, the document_chunks     *)
(* table and the storage bucket live in an external service shared by      *)
(* every server process, so the store calls of request handlers and of     *)
(* background ingestion runs interleave at the granularity of one call.    *)
(***************************************************************************)
EXTENDS Integers, Sequences, FiniteSets, TLC

\* ------------------------------------------------------------------------
\* Bounds
\* ------------------------------------------------------------------------
MaxRuns == 2          \* background ingestion runs that can be scheduled

\* ------------------------------------------------------------------------
\* Program constants
\* ------------------------------------------------------------------------
MaxErrLen == 500      \* str(exc)[:500]
batch_size == 100     \* embedding batch size of the pipeline
NoTextLen == 39       \* len("No text content extracted from document")

Runs == 1..MaxRuns

Blank == " "
\* the characters str.strip() removes
Whitespace == {" ", "\t", "\n"}

\* The files a client can upload, as the pages pdfplumber extracts from them
\* (page number, extracted text as a sequence of characters, fields read
\* from the tables as a sequence of keys and values): a scan without
\* text, and a three-page form with an empty page.
Files ==
  << << [page |-> 1, text |-> <<Blank, Blank>>, fields |-> <<>>] >>,
     << [page |-> 1, text |-> <<"a">>, fields |-> <<"Box 1", "5">>],
        [page |-> 2, text |-> <<>>, fields |-> <<>>],
        [page |-> 3, text |-> <<Blank, "c", Blank>>, fields |-> <<>>] >> >>

FileIds == 1..Len(Files)

\* len(str(exc)) of the exceptions a store, storage or extraction call raises.
ExcLens == {0, MaxErrLen + 1}
\* len(str(exc)) of the RetryError tenacity raises once embed_texts gave up.
RetryErrorLens == {70}

VARIABLES
  doc_status,      \* documents.ingest_status; "absent" before the row exists
  error_message,   \* documents.error_message: <<>> is NULL, <<n>> a text of length n
  storage,         \* id of the file stored at the document's storage_path
  chunk_rows,      \* rows of document_chunks for the document
  chats,           \* number of chats rows of the document
  summaries,       \* number of auto_summary chat_messages of the document
  run,             \* run[r]: local state of background run r
  save_pc,         \* position of the save-pdf request in flight
  response,        \* the last HTTP response sent
  last_ready_rows, \* rows inserted by the run that most recently wrote ready
  sd_in,           \* stream_document_chat: the call's inputs and what the model calls return
  sd_pc,           \* stream_document_chat: position of the generator
  sd_events,       \* stream_document_chat: the events yielded so far
  sg_in,           \* general question: the request and what the model calls return
  sg_pc,           \* stream_general_tax_question: position of the generator
  sg_events,       \* stream_general_tax_question: the events yielded so far
  gc_pc,           \* POST /chat/general: position of the handler and of generate()
  gc_lines,        \* POST /chat/general: the lines sent to the client
  full_answer,     \* generate(): the text accumulated as the answer
  gc_messages,     \* chat_messages rows stored by the request
  op_in,           \* one call of an operation: its arguments and what the services it calls do
  op_pc,           \* one call of an operation: its position
  op_log,          \* one call of an operation: the service and store calls made so far
  op_out,          \* one call of an operation: what it returned or raised
  questionnaire,   \* the user's questionnaire of the filing year: <<>> or <<q>>
  task_groups,     \* names of the task_groups rows
  tasks,           \* the user's rows of the tasks table
  checklist,       \* form codes of the user's user_form_checklist rows
  sync_response    \* the last response to a questionnaire or sync request

ingestVars == <<doc_status, error_message, storage, chunk_rows, chats, summaries,
                run, save_pc, response, last_ready_rows>>
streamVars == <<sd_in, sd_pc, sd_events>>
generalVars == <<sg_in, sg_pc, sg_events, gc_pc, gc_lines, full_answer, gc_messages>>
opVars == <<op_in, op_pc, op_log, op_out>>
taskVars == <<questionnaire, task_groups, tasks, checklist, sync_response>>
vars == <<ingestVars, streamVars, generalVars, opVars, taskVars>>

\* ------------------------------------------------------------------------
\* Pure helpers
\* ------------------------------------------------------------------------
Min(a, b) == IF a <= b THEN a ELSE b

\* str(exc)[:500], on the length of the message
Truncate(n) == Min(n, MaxErrLen)

RECURSIVE LStrip(_)
LStrip(t) == IF t # <<>> /\ Head(t) \in Whitespace THEN LStrip(Tail(t)) ELSE t

RECURSIVE RStrip(_)
RStrip(t) ==
  IF t # <<>> /\ t[Len(t)] \in Whitespace THEN RStrip(SubSeq(t, 1, Len(t) - 1)) ELSE t

\* str.strip()
Strip(t) == RStrip(LStrip(t))

\* default arguments of chunk_document
chunk_size == 800
chunk_overlap == 150

\* RecursiveCharacterTextSplitter.split_text on a stripped, non-empty text
\* that holds none of the separators "\n\n", "\n", ". " and " ": the text is
\* split into its characters (separator ""), which are merged into chunks of
\* size characters, each starting with the last overlap characters of the
\* one before it; a text of at most size characters is its only chunk.
RECURSIVE SplitText(_, _, _)
SplitText(text, size, overlap) ==
  IF Len(text) <= size THEN <<text>>
  ELSE <<SubSeq(text, 1, size)>>
         \o SplitText(SubSeq(text, size - overlap + 1, Len(text)), size, overlap)

SkipPage_Never(text) == FALSE

\* `if not text: continue`
SkipPage(text) == text = <<>>

NextIndex_Restart(index, splits) == 0

\* `index += 1`, once for each split of the page
NextIndex(index, splits) == index + Len(splits)

\* the loop over the pages, with the index reached so far
RECURSIVE ChunkPages(_, _, _, _)
ChunkPages(pages, index, size, overlap) ==
  IF pages = <<>> THEN <<>>
  ELSE LET page == Head(pages)
           text == Strip(page.text)
           splits == IF SkipPage(text) THEN <<>> ELSE SplitText(text, size, overlap)
           made == [i \in 1..Len(splits) |->
                      [text |-> splits[i], index |-> index + i - 1,
                       page |-> page.page, form_fields |-> page.fields]]
       IN made \o ChunkPages(Tail(pages), NextIndex(index, splits), size, overlap)

chunk_document(pages) == ChunkPages(pages, 0, chunk_size, chunk_overlap)

\* pdf_service.extract_pages on the bytes of file f
extract_pages(f) == Files[f]

NoChunks_NoCheck(chunks) == FALSE

\* `if not chunks: raise ValueError(...)`
NoChunks(chunks) == chunks = <<>>

\* embedder.embed_texts on one batch: one vector per text, in order
embed_texts(batch) == [i \in 1..Len(batch) |-> [of |-> batch[i]]]

Batch_OneMore(texts, i) == SubSeq(texts, i + 1, Min(i + batch_size + 1, Len(texts)))

\* `texts[i : i + batch_size]`
Batch(texts, i) == SubSeq(texts, i + 1, Min(i + batch_size, Len(texts)))

\* the batches embed_texts is called on, from offset i
RECURSIVE Batches(_, _)
Batches(texts, i) ==
  IF i >= Len(texts) THEN <<>>
  ELSE <<Batch(texts, i)>> \o Batches(texts, i + batch_size)

\* the loop `for i in range(0, len(texts), batch_size)`, from offset i
RECURSIVE EmbedFrom(_, _)
EmbedFrom(texts, i) ==
  IF i >= Len(texts) THEN <<>>
  ELSE embed_texts(Batch(texts, i)) \o EmbedFrom(texts, i + batch_size)

EmbedAll(chunks) == EmbedFrom([i \in 1..Len(chunks) |-> chunks[i].text], 0)

\* the rows built for insertion by run r
Rows(r, chunks, embeddings) ==
  { [run |-> r, chunk_index |-> chunks[i].index, chunk_text |-> chunks[i].text,
     page |-> chunks[i].page, embedding |-> embeddings[i]] : i \in 1..Len(chunks) }

\* ------------------------------------------------------------------------
\* State
\* ------------------------------------------------------------------------
IdleRun ==
  [pc |-> "idle", origin |-> "none", file |-> <<>>, pages |-> <<>>,
   chunks |-> <<>>, embeddings |-> <<>>, steps |-> <<>>]

NoResponse == [op |-> "none", status |-> "none"]

IngestInit ==
  /\ doc_status = "absent"
  /\ error_message = <<>>
  /\ storage \in FileIds
  /\ chunk_rows = {}
  /\ chats = 0
  /\ summaries = 0
  /\ run = [r \in Runs |-> IdleRun]
  /\ save_pc = "idle"
  /\ response = NoResponse
  /\ last_ready_rows = {}

\* no stream_document_chat call is under way
StreamOff ==
  /\ sd_in = <<>>
  /\ sd_pc = "off"
  /\ sd_events = <<>>

\* no general question is being answered
GeneralOff ==
  /\ sg_in = <<>>
  /\ sg_pc = "off"
  /\ sg_events = <<>>
  /\ gc_pc = "off"
  /\ gc_lines = <<>>
  /\ full_answer = <<>>
  /\ gc_messages = <<>>

\* no single operation is being called
OpOff ==
  /\ op_in = <<>>
  /\ op_pc = "off"
  /\ op_log = <<>>
  /\ op_out = <<>>

\* no questionnaire, no task, no checklist
TasksOff ==
  /\ questionnaire = <<>>
  /\ task_groups = {}
  /\ tasks = {}
  /\ checklist = {}
  /\ sync_response = NoResponse

Init == IngestInit /\ StreamOff /\ GeneralOff /\ OpOff /\ TasksOff

IdleRuns == {r \in Runs : run[r].pc = "idle"}
\* runs that began to execute and have not ended
ActiveRuns == {r \in Runs : run[r].pc \notin {"idle", "queued", "done", "escaped"}}

\* a save-pdf request in flight will schedule a run: its slot is kept for it
CanSchedule == Cardinality(IdleRuns) > (IF save_pc = "clear" THEN 1 ELSE 0)

\* the lowest free slot
FreeRun == CHOOSE r \in IdleRuns : \A q \in IdleRuns : r <= q

\* background_tasks.add_task(_run_ingestion_pipeline, ...)
AddTask(origin) ==
  run' = [run EXCEPT ![FreeRun] = [IdleRun EXCEPT !.pc = "queued", !.origin = origin]]

\* ------------------------------------------------------------------------
\* Request handlers (routers/documents.py)
\* ------------------------------------------------------------------------

\* POST /documents/create: the row is inserted with ingest_status pending
CreateDocument ==
  /\ doc_status = "absent"
  /\ \/ /\ doc_status' = "pending"
        /\ response' = [op |-> "create", status |-> "created"]
     \/ \* the insert raises or returns no row
        /\ response' = [op |-> "create", status |-> "500"]
        /\ UNCHANGED doc_status
  /\ UNCHANGED <<error_message, storage, chunk_rows, chats, summaries, run,
                 save_pc, last_ready_rows>>
  /\ UNCHANGED <<streamVars, generalVars, opVars, taskVars>>

AlreadyProcessing_NoCheck(status) == FALSE

\* `if doc.data["ingest_status"] == "processing"`
AlreadyProcessing(status) == status = "processing"

\* POST /documents/{id}/ingest
IngestDocument ==
  /\ \/ /\ doc_status = "absent"
        /\ response' = [op |-> "ingest", status |-> "404"]
        /\ UNCHANGED run
     \/ /\ doc_status # "absent"
        /\ AlreadyProcessing(doc_status)
        /\ response' = [op |-> "ingest", status |-> "already_processing"]
        /\ UNCHANGED run
     \/ /\ doc_status # "absent"
        /\ ~AlreadyProcessing(doc_status)
        /\ CanSchedule
        /\ AddTask("ingest")
        /\ response' = [op |-> "ingest", status |-> "ingestion_started"]
  /\ UNCHANGED <<doc_status, error_message, storage, chunk_rows, chats,
                 summaries, save_pc, last_ready_rows>>
  /\ UNCHANGED <<streamVars, generalVars, opVars, taskVars>>

\* POST /documents/{id}/save-pdf, up to the overwrite of the stored file
SavePdfUpload(f) ==
  /\ save_pc = "idle"
  /\ \/ /\ doc_status = "absent"
        /\ response' = [op |-> "save", status |-> "404"]
        /\ UNCHANGED <<storage, save_pc>>
     \/ /\ doc_status # "absent"
        /\ CanSchedule
        /\ storage' = f
        /\ save_pc' = "clear"
        /\ UNCHANGED response
     \/ \* the overwrite of the stored file raises: the request fails
        /\ doc_status # "absent"
        /\ response' = [op |-> "save", status |-> "500"]
        /\ UNCHANGED <<storage, save_pc>>
  /\ UNCHANGED <<doc_status, error_message, chunk_rows, chats, summaries, run,
                 last_ready_rows>>
  /\ UNCHANGED <<streamVars, generalVars, opVars, taskVars>>

\* save-pdf, from the delete of the old chunks to the response
SavePdfClear ==
  /\ save_pc = "clear"
  /\ save_pc' = "idle"
  /\ \/ /\ chunk_rows' = {}
        /\ AddTask("save")
        /\ response' = [op |-> "save", status |-> "saved_and_reingesting"]
     \/ \* the file-size update or the delete raises: the request fails
        /\ response' = [op |-> "save", status |-> "500"]
        /\ UNCHANGED <<chunk_rows, run>>
  /\ UNCHANGED <<doc_status, error_message, storage, chats, summaries,
                 last_ready_rows>>
  /\ UNCHANGED <<streamVars, generalVars, opVars, taskVars>>

\* ------------------------------------------------------------------------
\* Background run (_run_ingestion_pipeline), one action per call.  A call
\* that raises has no effect of its own: the run is then in the `except
\* Exception` handler, whose update of the document is part of the same step.
\* ------------------------------------------------------------------------
Goto(r, pc, step) ==
  [run[r] EXCEPT !.pc = pc, !.steps = Append(@, step)]

\* a run that has ended keeps no local state
Ended(pc) == [IdleRun EXCEPT !.pc = pc]

\* the run returns normally
Return(r) == run' = [run EXCEPT ![r] = Ended("done")]

\* the stored message: str(exc)[:500]
ErrorMessage(n) == <<Truncate(n)>>

\* the `except Exception` handler after a call raised an exception whose
\* message has length n: ingest_status = error and the message are written, or
\* that update raises too and the exception leaves the run
Except(r, n) ==
  \/ /\ doc_status' = "error"
     /\ error_message' = ErrorMessage(n)
     /\ run' = [run EXCEPT ![r] = Ended("done")]
  \/ /\ run' = [run EXCEPT ![r] = Ended("escaped")]
     /\ UNCHANGED <<doc_status, error_message>>

\* 1. update ingest_status = processing
RunMarkProcessing(r) ==
  /\ run[r].pc = "queued"
  /\ \/ /\ doc_status' = "processing"
        /\ run' = [run EXCEPT ![r] = Goto(r, "download", "mark_processing")]
        /\ UNCHANGED error_message
     \/ \E n \in ExcLens : Except(r, n)
  /\ UNCHANGED <<storage, chunk_rows, chats, summaries, save_pc, response,
                 last_ready_rows>>
  /\ UNCHANGED <<streamVars, generalVars, opVars, taskVars>>

\* 2. storage_service.download
RunDownload(r) ==
  /\ run[r].pc = "download"
  /\ \/ /\ run' = [run EXCEPT ![r] = [Goto(r, "extract", "download") EXCEPT !.file = <<storage>>]]
        /\ UNCHANGED <<doc_status, error_message>>
     \/ \E n \in ExcLens : Except(r, n)
  /\ UNCHANGED <<storage, chunk_rows, chats, summaries, save_pc, response,
                 last_ready_rows>>
  /\ UNCHANGED <<streamVars, generalVars, opVars, taskVars>>

\* 3. pdf_service.extract_pages
RunExtract(r) ==
  /\ run[r].pc = "extract"
  /\ \/ /\ run' = [run EXCEPT ![r] = [Goto(r, "chunk", "extract") EXCEPT
                                        !.pages = extract_pages(run[r].file[1])]]
        /\ UNCHANGED <<doc_status, error_message>>
     \/ \E n \in ExcLens : Except(r, n)
  /\ UNCHANGED <<storage, chunk_rows, chats, summaries, save_pc, response,
                 last_ready_rows>>
  /\ UNCHANGED <<streamVars, generalVars, opVars, taskVars>>

\* 4. chunker.chunk_document, and the ValueError on an empty chunk list
RunChunk(r) ==
  /\ run[r].pc = "chunk"
  /\ LET chunks == chunk_document(run[r].pages) IN
       IF NoChunks(chunks)
       THEN Except(r, NoTextLen)
       ELSE /\ run' = [run EXCEPT ![r] = [Goto(r, "embed", "chunk") EXCEPT !.chunks = chunks]]
            /\ UNCHANGED <<doc_status, error_message>>
  /\ UNCHANGED <<storage, chunk_rows, chats, summaries, save_pc, response,
                 last_ready_rows>>
  /\ UNCHANGED <<streamVars, generalVars, opVars, taskVars>>

\* 5. the embedding loop over the batches; embed_texts raises a RetryError
\* once its attempts are used up
RunEmbed(r) ==
  /\ run[r].pc = "embed"
  /\ \/ /\ run' = [run EXCEPT ![r] = [Goto(r, "insert", "embed") EXCEPT
                                        !.embeddings = EmbedAll(run[r].chunks)]]
        /\ UNCHANGED <<doc_status, error_message>>
     \/ \E n \in RetryErrorLens : Except(r, n)
  /\ UNCHANGED <<storage, chunk_rows, chats, summaries, save_pc, response,
                 last_ready_rows>>
  /\ UNCHANGED <<streamVars, generalVars, opVars, taskVars>>

\* 6. insert of the rows into document_chunks (one statement)
RunInsert(r) ==
  /\ run[r].pc = "insert"
  /\ \/ /\ chunk_rows' = chunk_rows \cup Rows(r, run[r].chunks, run[r].embeddings)
        /\ run' = [run EXCEPT ![r] = Goto(r, "mark_ready", "insert")]
        /\ UNCHANGED <<doc_status, error_message>>
     \/ /\ \E n \in ExcLens : Except(r, n)
        /\ UNCHANGED chunk_rows
  /\ UNCHANGED <<storage, chats, summaries, save_pc, response, last_ready_rows>>
  /\ UNCHANGED <<streamVars, generalVars, opVars, taskVars>>

RunMarkReady_ClearsError(r) ==
  /\ run[r].pc = "mark_ready"
  /\ \/ /\ doc_status' = "ready"
        /\ error_message' = <<>>
        /\ last_ready_rows' = Rows(r, run[r].chunks, run[r].embeddings)
        /\ run' = [run EXCEPT ![r] = Goto(r, "summarize", "mark_ready")]
     \/ /\ \E n \in ExcLens : Except(r, n)
        /\ UNCHANGED last_ready_rows
  /\ UNCHANGED <<storage, chunk_rows, chats, summaries, save_pc, response>>
  /\ UNCHANGED <<streamVars, generalVars, opVars, taskVars>>

\* 7. update ingest_status = ready
RunMarkReady(r) ==
  /\ run[r].pc = "mark_ready"
  /\ \/ /\ doc_status' = "ready"
        /\ last_ready_rows' = Rows(r, run[r].chunks, run[r].embeddings)
        /\ run' = [run EXCEPT ![r] = Goto(r, "summarize", "mark_ready")]
        /\ UNCHANGED error_message
     \/ /\ \E n \in ExcLens : Except(r, n)
        /\ UNCHANGED last_ready_rows
  /\ UNCHANGED <<storage, chunk_rows, chats, summaries, save_pc, response>>
  /\ UNCHANGED <<streamVars, generalVars, opVars, taskVars>>

\* 8. _auto_summarize_after_ingest up to the fetch of the chunks: the chat is
\* looked up (and created when missing), an existing auto-summary ends the step
RunSummarize(r) ==
  /\ run[r].pc = "summarize"
  /\ \/ \* a store call raises, or the chat insert returns no row: swallowed
        /\ Return(r)
        /\ UNCHANGED chats
     \/ /\ chats = 1 /\ summaries > 0
        /\ Return(r)
        /\ UNCHANGED chats
     \/ /\ chats = 0 \/ (chats = 1 /\ summaries = 0)
        /\ chats' = IF chats = 0 THEN 1 ELSE chats
        /\ IF chunk_rows = {}
           THEN Return(r)
           ELSE run' = [run EXCEPT ![r].pc = "summary_insert"]
  /\ UNCHANGED <<doc_status, error_message, storage, chunk_rows, summaries,
                 save_pc, response, last_ready_rows>>
  /\ UNCHANGED <<streamVars, generalVars, opVars, taskVars>>

RunSummaryInsert_Raises(r) ==
  /\ run[r].pc = "summary_insert"
  /\ \/ /\ summaries' = summaries + 1
        /\ Return(r)
        /\ UNCHANGED <<doc_status, error_message>>
     \/ /\ \E n \in ExcLens : Except(r, n)
        /\ UNCHANGED summaries
  /\ UNCHANGED <<storage, chunk_rows, chats, save_pc, response, last_ready_rows>>
  /\ UNCHANGED <<streamVars, generalVars, opVars, taskVars>>

\* _auto_summarize_after_ingest: the summary is generated and stored; its
\* own `except Exception` swallows whatever raises
RunSummaryInsert(r) ==
  /\ run[r].pc = "summary_insert"
  /\ \/ summaries' = summaries + 1
     \/ UNCHANGED summaries     \* generation or the insert raises: swallowed
  /\ Return(r)
  /\ UNCHANGED <<doc_status, error_message, storage, chunk_rows, chats,
                 save_pc, response, last_ready_rows>>
  /\ UNCHANGED <<streamVars, generalVars, opVars, taskVars>>

Next ==
  \/ CreateDocument
  \/ IngestDocument
  \/ \E f \in FileIds : SavePdfUpload(f)
  \/ SavePdfClear
  \/ \E r \in Runs : RunMarkProcessing(r)
  \/ \E r \in Runs : RunDownload(r)
  \/ \E r \in Runs : RunExtract(r)
  \/ \E r \in Runs : RunChunk(r)
  \/ \E r \in Runs : RunEmbed(r)
  \/ \E r \in Runs : RunInsert(r)
  \/ \E r \in Runs : RunMarkReady(r)
  \/ \E r \in Runs : RunSummarize(r)
  \/ \E r \in Runs : RunSummaryInsert(r)

Spec == Init /\ [][Next]_vars

\* ------------------------------------------------------------------------
\* Field Locator (rag/highlightExtractor.py).  Texts are sequences of
\* characters; "emdash" stands for the one character U+2014.
\* ------------------------------------------------------------------------
FORM_1040_FIELDS ==
  << [key |-> <<"f", "i", "r", "s", "t", " ", "n", "a", "m", "e">>,
      page |-> 1, bbox |-> <<32, 126, 282, 140>>,
      label |-> <<"Y", "o", "u", "r", " ", "f", "i", "r", "s", "t", " ", "n", "a", "m", "e", " ", "a", "n", "d", " ", "m", "i", "d", "d", "l", "e", " ", "i", "n", "i", "t", "i", "a", "l">>],
     [key |-> <<"n", "a", "m", "e">>,
      page |-> 1, bbox |-> <<32, 126, 282, 140>>,
      label |-> <<"Y", "o", "u", "r", " ", "f", "i", "r", "s", "t", " ", "n", "a", "m", "e", " ", "a", "n", "d", " ", "m", "i", "d", "d", "l", "e", " ", "i", "n", "i", "t", "i", "a", "l">>],
     [key |-> <<"l", "a", "s", "t", " ", "n", "a", "m", "e">>,
      page |-> 1, bbox |-> <<282, 126, 430, 140>>,
      label |-> <<"L", "a", "s", "t", " ", "n", "a", "m", "e">>],
     [key |-> <<"s", "s", "n">>,
      page |-> 1, bbox |-> <<430, 126, 580, 140>>,
      label |-> <<"Y", "o", "u", "r", " ", "s", "o", "c", "i", "a", "l", " ", "s", "e", "c", "u", "r", "i", "t", "y", " ", "n", "u", "m", "b", "e", "r">>],
     [key |-> <<"s", "o", "c", "i", "a", "l", " ", "s", "e", "c", "u", "r", "i", "t", "y">>,
      page |-> 1, bbox |-> <<430, 126, 580, 140>>,
      label |-> <<"Y", "o", "u", "r", " ", "s", "o", "c", "i", "a", "l", " ", "s", "e", "c", "u", "r", "i", "t", "y", " ", "n", "u", "m", "b", "e", "r">>],
     [key |-> <<"s", "o", "c", "i", "a", "l", " ", "s", "e", "c", "u", "r", "i", "t", "y", " ", "n", "u", "m", "b", "e", "r">>,
      page |-> 1, bbox |-> <<430, 126, 580, 140>>,
      label |-> <<"Y", "o", "u", "r", " ", "s", "o", "c", "i", "a", "l", " ", "s", "e", "c", "u", "r", "i", "t", "y", " ", "n", "u", "m", "b", "e", "r">>],
     [key |-> <<"s", "p", "o", "u", "s", "e", " ", "n", "a", "m", "e">>,
      page |-> 1, bbox |-> <<32, 140, 282, 155>>,
      label |-> <<"S", "p", "o", "u", "s", "e", "'", "s", " ", "f", "i", "r", "s", "t", " ", "n", "a", "m", "e", " ", "a", "n", "d", " ", "m", "i", "d", "d", "l", "e", " ", "i", "n", "i", "t", "i", "a", "l", " ", "(", "i", "f", " ", "j", "o", "i", "n", "t", " ", "r", "e", "t", "u", "r", "n", ")">>],
     [key |-> <<"s", "p", "o", "u", "s", "e", " ", "s", "s", "n">>,
      page |-> 1, bbox |-> <<430, 140, 580, 155>>,
      label |-> <<"S", "p", "o", "u", "s", "e", "'", "s", " ", "s", "o", "c", "i", "a", "l", " ", "s", "e", "c", "u", "r", "i", "t", "y", " ", "n", "u", "m", "b", "e", "r">>],
     [key |-> <<"a", "d", "d", "r", "e", "s", "s">>,
      page |-> 1, bbox |-> <<32, 157, 395, 172>>,
      label |-> <<"H", "o", "m", "e", " ", "a", "d", "d", "r", "e", "s", "s", " ", "(", "n", "u", "m", "b", "e", "r", " ", "a", "n", "d", " ", "s", "t", "r", "e", "e", "t", ")">>],
     [key |-> <<"h", "o", "m", "e", " ", "a", "d", "d", "r", "e", "s", "s">>,
      page |-> 1, bbox |-> <<32, 157, 395, 172>>,
      label |-> <<"H", "o", "m", "e", " ", "a", "d", "d", "r", "e", "s", "s", " ", "(", "n", "u", "m", "b", "e", "r", " ", "a", "n", "d", " ", "s", "t", "r", "e", "e", "t", ")">>],
     [key |-> <<"c", "i", "t", "y">>,
      page |-> 1, bbox |-> <<32, 175, 250, 190>>,
      label |-> <<"C", "i", "t", "y", ",", " ", "t", "o", "w", "n", ",", " ", "o", "r", " ", "p", "o", "s", "t", " ", "o", "f", "f", "i", "c", "e">>],
     [key |-> <<"s", "t", "a", "t", "e">>,
      page |-> 1, bbox |-> <<335, 175, 395, 190>>,
      label |-> <<"S", "t", "a", "t", "e">>],
     [key |-> <<"z", "i", "p">>,
      page |-> 1, bbox |-> <<400, 175, 470, 190>>,
      label |-> <<"Z", "I", "P", " ", "c", "o", "d", "e">>],
     [key |-> <<"z", "i", "p", " ", "c", "o", "d", "e">>,
      page |-> 1, bbox |-> <<400, 175, 470, 190>>,
      label |-> <<"Z", "I", "P", " ", "c", "o", "d", "e">>],
     [key |-> <<"f", "i", "l", "i", "n", "g", " ", "s", "t", "a", "t", "u", "s">>,
      page |-> 1, bbox |-> <<32, 215, 560, 265>>,
      label |-> <<"F", "i", "l", "i", "n", "g", " ", "S", "t", "a", "t", "u", "s">>],
     [key |-> <<"s", "i", "n", "g", "l", "e">>,
      page |-> 1, bbox |-> <<108, 218, 280, 230>>,
      label |-> <<"F", "i", "l", "i", "n", "g", " ", "S", "t", "a", "t", "u", "s", " ", "emdash", " ", "S", "i", "n", "g", "l", "e">>],
     [key |-> <<"m", "a", "r", "r", "i", "e", "d", " ", "f", "i", "l", "i", "n", "g", " ", "j", "o", "i", "n", "t", "l", "y">>,
      page |-> 1, bbox |-> <<108, 230, 380, 242>>,
      label |-> <<"F", "i", "l", "i", "n", "g", " ", "S", "t", "a", "t", "u", "s", " ", "emdash", " ", "M", "a", "r", "r", "i", "e", "d", " ", "f", "i", "l", "i", "n", "g", " ", "j", "o", "i", "n", "t", "l", "y">>],
     [key |-> <<"d", "e", "p", "e", "n", "d", "e", "n", "t", "s">>,
      page |-> 1, bbox |-> <<32, 325, 580, 400>>,
      label |-> <<"D", "e", "p", "e", "n", "d", "e", "n", "t", "s", " ", "s", "e", "c", "t", "i", "o", "n">>],
     [key |-> <<"w", "a", "g", "e", "s">>,
      page |-> 1, bbox |-> <<400, 415, 580, 428>>,
      label |-> <<"L", "i", "n", "e", " ", "1", "a", " ", "emdash", " ", "T", "o", "t", "a", "l", " ", "a", "m", "o", "u", "n", "t", " ", "f", "r", "o", "m", " ", "F", "o", "r", "m", "(", "s", ")", " ", "W", "-", "2", ",", " ", "b", "o", "x", " ", "1">>],
     [key |-> <<"w", "-", "2">>,
      page |-> 1, bbox |-> <<400, 415, 580, 428>>,
      label |-> <<"L", "i", "n", "e", " ", "1", "a", " ", "emdash", " ", "W", "a", "g", "e", "s", " ", "f", "r", "o", "m", " ", "W", "-", "2">>],
     [key |-> <<"i", "n", "t", "e", "r", "e", "s", "t">>,
      page |-> 1, bbox |-> <<400, 465, 580, 478>>,
      label |-> <<"L", "i", "n", "e", " ", "2", "b", " ", "emdash", " ", "T", "a", "x", "a", "b", "l", "e", " ", "i", "n", "t", "e", "r", "e", "s", "t">>],
     [key |-> <<"d", "i", "v", "i", "d", "e", "n", "d", "s">>,
      page |-> 1, bbox |-> <<400, 488, 580, 500>>,
      label |-> <<"L", "i", "n", "e", " ", "3", "b", " ", "emdash", " ", "O", "r", "d", "i", "n", "a", "r", "y", " ", "d", "i", "v", "i", "d", "e", "n", "d", "s">>],
     [key |-> <<"i", "r", "a">>,
      page |-> 1, bbox |-> <<400, 500, 580, 513>>,
      label |-> <<"L", "i", "n", "e", " ", "4", "b", " ", "emdash", " ", "I", "R", "A", " ", "d", "i", "s", "t", "r", "i", "b", "u", "t", "i", "o", "n", "s", " ", "(", "t", "a", "x", "a", "b", "l", "e", " ", "a", "m", "o", "u", "n", "t", ")">>],
     [key |-> <<"a", "d", "j", "u", "s", "t", "e", "d", " ", "g", "r", "o", "s", "s", " ", "i", "n", "c", "o", "m", "e">>,
      page |-> 1, bbox |-> <<400, 555, 580, 568>>,
      label |-> <<"L", "i", "n", "e", " ", "1", "1", " ", "emdash", " ", "A", "d", "j", "u", "s", "t", "e", "d", " ", "g", "r", "o", "s", "s", " ", "i", "n", "c", "o", "m", "e">>],
     [key |-> <<"a", "g", "i">>,
      page |-> 1, bbox |-> <<400, 555, 580, 568>>,
      label |-> <<"L", "i", "n", "e", " ", "1", "1", " ", "emdash", " ", "A", "d", "j", "u", "s", "t", "e", "d", " ", "g", "r", "o", "s", "s", " ", "i", "n", "c", "o", "m", "e">>],
     [key |-> <<"s", "t", "a", "n", "d", "a", "r", "d", " ", "d", "e", "d", "u", "c", "t", "i", "o", "n">>,
      page |-> 1, bbox |-> <<400, 572, 580, 585>>,
      label |-> <<"L", "i", "n", "e", " ", "1", "2", " ", "emdash", " ", "S", "t", "a", "n", "d", "a", "r", "d", " ", "d", "e", "d", "u", "c", "t", "i", "o", "n", " ", "o", "r", " ", "i", "t", "e", "m", "i", "z", "e", "d", " ", "d", "e", "d", "u", "c", "t", "i", "o", "n", "s">>],
     [key |-> <<"d", "e", "d", "u", "c", "t", "i", "o", "n">>,
      page |-> 1, bbox |-> <<400, 572, 580, 585>>,
      label |-> <<"L", "i", "n", "e", " ", "1", "2", " ", "emdash", " ", "S", "t", "a", "n", "d", "a", "r", "d", " ", "d", "e", "d", "u", "c", "t", "i", "o", "n", " ", "o", "r", " ", "i", "t", "e", "m", "i", "z", "e", "d", " ", "d", "e", "d", "u", "c", "t", "i", "o", "n", "s">>],
     [key |-> <<"t", "a", "x", "a", "b", "l", "e", " ", "i", "n", "c", "o", "m", "e">>,
      page |-> 1, bbox |-> <<400, 600, 580, 613>>,
      label |-> <<"L", "i", "n", "e", " ", "1", "5", " ", "emdash", " ", "T", "a", "x", "a", "b", "l", "e", " ", "i", "n", "c", "o", "m", "e">>],
     [key |-> <<"t", "a", "x">>,
      page |-> 2, bbox |-> <<400, 65, 580, 78>>,
      label |-> <<"L", "i", "n", "e", " ", "1", "6", " ", "emdash", " ", "T", "a", "x">>],
     [key |-> <<"c", "h", "i", "l", "d", " ", "t", "a", "x", " ", "c", "r", "e", "d", "i", "t">>,
      page |-> 2, bbox |-> <<400, 105, 580, 118>>,
      label |-> <<"L", "i", "n", "e", " ", "1", "9", " ", "emdash", " ", "C", "h", "i", "l", "d", " ", "t", "a", "x", " ", "c", "r", "e", "d", "i", "t", " ", "/", " ", "o", "t", "h", "e", "r", " ", "d", "e", "p", "e", "n", "d", "e", "n", "t", " ", "c", "r", "e", "d", "i", "t">>],
     [key |-> <<"t", "o", "t", "a", "l", " ", "t", "a", "x">>,
      page |-> 2, bbox |-> <<400, 178, 580, 191>>,
      label |-> <<"L", "i", "n", "e", " ", "2", "4", " ", "emdash", " ", "T", "o", "t", "a", "l", " ", "t", "a", "x">>],
     [key |-> <<"w", "i", "t", "h", "h", "o", "l", "d", "i", "n", "g">>,
      page |-> 2, bbox |-> <<400, 205, 580, 218>>,
      label |-> <<"L", "i", "n", "e", " ", "2", "5", "d", " ", "emdash", " ", "F", "e", "d", "e", "r", "a", "l", " ", "i", "n", "c", "o", "m", "e", " ", "t", "a", "x", " ", "w", "i", "t", "h", "h", "e", "l", "d">>],
     [key |-> <<"f", "e", "d", "e", "r", "a", "l", " ", "t", "a", "x", " ", "w", "i", "t", "h", "h", "e", "l", "d">>,
      page |-> 2, bbox |-> <<400, 205, 580, 218>>,
      label |-> <<"L", "i", "n", "e", " ", "2", "5", "d", " ", "emdash", " ", "F", "e", "d", "e", "r", "a", "l", " ", "i", "n", "c", "o", "m", "e", " ", "t", "a", "x", " ", "w", "i", "t", "h", "h", "e", "l", "d">>],
     [key |-> <<"e", "s", "t", "i", "m", "a", "t", "e", "d", " ", "t", "a", "x">>,
      page |-> 2, bbox |-> <<400, 222, 580, 235>>,
      label |-> <<"L", "i", "n", "e", " ", "2", "6", " ", "emdash", " ", "E", "s", "t", "i", "m", "a", "t", "e", "d", " ", "t", "a", "x", " ", "p", "a", "y", "m", "e", "n", "t", "s">>],
     [key |-> <<"e", "a", "r", "n", "e", "d", " ", "i", "n", "c", "o", "m", "e", " ", "c", "r", "e", "d", "i", "t">>,
      page |-> 2, bbox |-> <<400, 235, 580, 248>>,
      label |-> <<"L", "i", "n", "e", " ", "2", "7", " ", "emdash", " ", "E", "a", "r", "n", "e", "d", " ", "i", "n", "c", "o", "m", "e", " ", "c", "r", "e", "d", "i", "t", " ", "(", "E", "I", "C", ")">>],
     [key |-> <<"e", "i", "c">>,
      page |-> 2, bbox |-> <<400, 235, 580, 248>>,
      label |-> <<"L", "i", "n", "e", " ", "2", "7", " ", "emdash", " ", "E", "a", "r", "n", "e", "d", " ", "i", "n", "c", "o", "m", "e", " ", "c", "r", "e", "d", "i", "t", " ", "(", "E", "I", "C", ")">>],
     [key |-> <<"r", "e", "f", "u", "n", "d">>,
      page |-> 2, bbox |-> <<400, 295, 580, 308>>,
      label |-> <<"L", "i", "n", "e", " ", "3", "4", " ", "emdash", " ", "R", "e", "f", "u", "n", "d", " ", "a", "m", "o", "u", "n", "t">>],
     [key |-> <<"a", "m", "o", "u", "n", "t", " ", "y", "o", "u", " ", "o", "w", "e">>,
      page |-> 2, bbox |-> <<400, 340, 580, 353>>,
      label |-> <<"L", "i", "n", "e", " ", "3", "7", " ", "emdash", " ", "A", "m", "o", "u", "n", "t", " ", "y", "o", "u", " ", "o", "w", "e">>],
     [key |-> <<"s", "i", "g", "n", "a", "t", "u", "r", "e">>,
      page |-> 2, bbox |-> <<32, 395, 350, 430>>,
      label |-> <<"Y", "o", "u", "r", " ", "s", "i", "g", "n", "a", "t", "u", "r", "e">>],
     [key |-> <<"r", "o", "u", "t", "i", "n", "g", " ", "n", "u", "m", "b", "e", "r">>,
      page |-> 2, bbox |-> <<180, 308, 310, 321>>,
      label |-> <<"L", "i", "n", "e", " ", "3", "5", "b", " ", "emdash", " ", "R", "o", "u", "t", "i", "n", "g", " ", "n", "u", "m", "b", "e", "r">>],
     [key |-> <<"a", "c", "c", "o", "u", "n", "t", " ", "n", "u", "m", "b", "e", "r">>,
      page |-> 2, bbox |-> <<350, 308, 530, 321>>,
      label |-> <<"L", "i", "n", "e", " ", "3", "5", "d", " ", "emdash", " ", "A", "c", "c", "o", "u", "n", "t", " ", "n", "u", "m", "b", "e", "r">>],
     [key |-> <<"b", "a", "n", "k", " ", "a", "c", "c", "o", "u", "n", "t">>,
      page |-> 2, bbox |-> <<180, 295, 530, 321>>,
      label |-> <<"L", "i", "n", "e", "s", " ", "3", "5", "b", "-", "3", "5", "d", " ", "emdash", " ", "D", "i", "r", "e", "c", "t", " ", "d", "e", "p", "o", "s", "i", "t", " ", "i", "n", "f", "o">>],
     [key |-> <<"d", "i", "r", "e", "c", "t", " ", "d", "e", "p", "o", "s", "i", "t">>,
      page |-> 2, bbox |-> <<180, 295, 530, 321>>,
      label |-> <<"L", "i", "n", "e", "s", " ", "3", "5", "b", "-", "3", "5", "d", " ", "emdash", " ", "D", "i", "r", "e", "c", "t", " ", "d", "e", "p", "o", "s", "i", "t", " ", "i", "n", "f", "o">>],
     [key |-> <<"o", "c", "c", "u", "p", "a", "t", "i", "o", "n">>,
      page |-> 2, bbox |-> <<32, 430, 200, 443>>,
      label |-> <<"Y", "o", "u", "r", " ", "o", "c", "c", "u", "p", "a", "t", "i", "o", "n">>] >>

UpperCase == <<"A", "B", "C", "D", "E", "F", "G", "H", "I", "J", "K", "L", "M",
               "N", "O", "P", "Q", "R", "S", "T", "U", "V", "W", "X", "Y", "Z">>
LowerCase == <<"a", "b", "c", "d", "e", "f", "g", "h", "i", "j", "k", "l", "m",
               "n", "o", "p", "q", "r", "s", "t", "u", "v", "w", "x", "y", "z">>

LowerChar(c) ==
  IF \E i \in 1..Len(UpperCase) : UpperCase[i] = c
  THEN LowerCase[CHOOSE i \in 1..Len(UpperCase) : UpperCase[i] = c]
  ELSE c

\* str.lower()
Lower(t) == [i \in 1..Len(t) |-> LowerChar(t[i])]

\* `a in b` on strings
IsSubstr(a, b) ==
  \E i \in 0..(Len(b) - Len(a)) : SubSeq(b, i + 1, i + Len(a)) = a

\* the dict a hit returns
Location(field) ==
  [page |-> field.page, bbox |-> field.bbox, label |-> field.label,
   method |-> "template_map"]

FieldIndexes == 1..Len(FORM_1040_FIELDS)

\* the first of the fields `hits`, in catalog order
FirstField(hits) ==
  FORM_1040_FIELDS[CHOOSE i \in hits : \A j \in hits : i <= j]

\* `if target in FORM_1040_FIELDS`
ExactHits(target) == {i \in FieldIndexes : FORM_1040_FIELDS[i].key = target}

\* `if target in key or key in target`
FuzzyHits(target) ==
  {i \in FieldIndexes : \/ IsSubstr(target, FORM_1040_FIELDS[i].key)
                        \/ IsSubstr(FORM_1040_FIELDS[i].key, target)}

\* `if target in field["label"].lower()`
LabelHits(target) ==
  {i \in FieldIndexes : IsSubstr(target, Lower(FORM_1040_FIELDS[i].label))}

find_field_location_FuzzyFirst(field_label) ==
  LET target == Strip(Lower(field_label))
  IN IF FuzzyHits(target) # {} THEN <<Location(FirstField(FuzzyHits(target)))>>
     ELSE IF LabelHits(target) # {} THEN <<Location(FirstField(LabelHits(target)))>>
     ELSE <<>>

\* find_field_location: <<>> is None, <<location>> a hit
find_field_location(field_label) ==
  LET target == Strip(Lower(field_label))
  IN IF ExactHits(target) # {} THEN <<Location(FirstField(ExactHits(target)))>>
     ELSE IF FuzzyHits(target) # {} THEN <<Location(FirstField(FuzzyHits(target)))>>
     ELSE IF LabelHits(target) # {} THEN <<Location(FirstField(LabelHits(target)))>>
     ELSE <<>>

\* ------------------------------------------------------------------------
\* Answer Orchestrator, document-grounded flow (rag/chain.py)
\* ------------------------------------------------------------------------

\* JSON values a field_label can be: a text, null, a number
Text(t) == [t |-> "string", s |-> t]
JsonNull == [t |-> "null", s |-> <<>>]
JsonNumber == [t |-> "number", s |-> <<>>]

FieldLabels ==
  { Text(<<"s", "s", "n">>), Text(<<" ", "W", "a", "g", "e", "s">>),
    Text(<<"q", "q">>), Text(<<" ">>), Text(<<>>), JsonNull, JsonNumber }

\* JSON values the intent classifier can answer with: the object asked for
\* (needs_highlight true, false or missing), or a value that is no object
Intents ==
  [t : {"object"}, needs_highlight : {"true", "false", "missing"},
   field_label : FieldLabels]
  \cup {[t |-> "array", needs_highlight |-> "missing", field_label |-> JsonNull]}

DefaultIntent ==
  [t |-> "object", needs_highlight |-> "false", field_label |-> JsonNull]

\* what _highlight_chain.ainvoke does: it raises, or returns a text that is
\* no JSON, JSON, or JSON inside a markdown fence
HighlightResponses ==
  {[kind |-> "raises", value |-> DefaultIntent],
   [kind |-> "not_json", value |-> DefaultIntent]}
  \cup [kind : {"json", "fenced_json"}, value : Intents]

\* check_for_highlight: the parsed value, or the default on any exception
check_for_highlight(resp) ==
  IF resp.kind \in {"json", "fenced_json"} THEN resp.value ELSE DefaultIntent

\* Python truth of a JSON value used as field_label
Truthy(label) ==
  \/ label.t = "string" /\ label.s # <<>>
  \/ label.t = "number"

WantsHighlight_AnyLabel(intent) == Truthy(intent.field_label)

\* `highlight_intent.get("needs_highlight") and highlight_intent.get("field_label")`
WantsHighlight(intent) ==
  intent.needs_highlight = "true" /\ Truthy(intent.field_label)

\* `if location:`
Located(location) == location # <<>>

\* the location looked up for the label inside the try block: label.lower()
\* raises on a label that is no text, and the exception is swallowed
LookUp(label) ==
  IF label.t = "string" THEN find_field_location(label.s) ELSE <<>>

\* what the token stream of the answer model yields, piece by piece, as texts
AnswerStreams == {<<>>, << <<"x">> >>, << <<"x">>, <<>>, <<"y", "z">> >>}

\* the text made of the pieces, in order
RECURSIVE Flatten(_)
Flatten(pieces) ==
  IF pieces = <<>> THEN <<>> ELSE Head(pieces) \o Flatten(Tail(pieces))

\* the chunks handed to the answer operations (retrieve_chunks, or all chunks)
ChunkLists ==
  {<<>>,
   << [page |-> 1, chunk_text |-> <<"a">>] >>,
   << [page |-> 1, chunk_text |-> <<"a">>], [page |-> 3, chunk_text |-> <<"c">>] >>}

\* the context text: one "[Page p] text" entry per chunk, joined by the
\* separator; it is the empty text exactly when there is no chunk
ContextOf(chunks) ==
  [i \in 1..Len(chunks) |-> <<"[Page ", chunks[i].page, "] ">> \o chunks[i].chunk_text]

\* `if not context: context = "No relevant content found in the document."`
NoRelevantContent == << <<"No relevant content found in the document.">> >>
\* `if not context: return "No content found in this document to summarize."`
NoContentFound == <<"No content found in this document to summarize.">>

RagPrompt(context) == [chain |-> "rag", context |-> context]
SummarizePrompt(context) == [chain |-> "summarize", context |-> context]

Status(stage) == [type |-> "status", stage |-> stage]
Highlight(location) ==
  [type |-> "highlight",
   highlight |-> [page |-> location.page, bbox |-> location.bbox,
                  label |-> location.label, method |-> location.method]]
AnswerToken(text) == [type |-> "answer_token", text |-> text]
Done == [type |-> "done"]

\* answer: what the model streams for the prompt of stream_document_chat;
\* other: what it generates for any other prompt
StreamInputs ==
  [is_summary : BOOLEAN, db_given : BOOLEAN,
   highlight_response : HighlightResponses, chunks : ChunkLists,
   answer : AnswerStreams, other : AnswerStreams]

\* the prompt stream_document_chat gives to _summarize_chain or _rag_chain
StreamPrompt(in) ==
  IF in.is_summary THEN SummarizePrompt(ContextOf(in.chunks))
  ELSE RagPrompt(ContextOf(in.chunks))

\* the answer model: a deterministic function of its prompt
Model(in, prompt) == IF prompt = StreamPrompt(in) THEN in.answer ELSE in.other

\* answer_question: the text _rag_chain.invoke returns
answer_question(in) ==
  LET context == ContextOf(in.chunks)
  IN Flatten(Model(in, RagPrompt(IF context = <<>> THEN NoRelevantContent ELSE context)))

\* summarize_document_sections
summarize_document_sections(in) ==
  LET context == ContextOf(in.chunks)
  IN IF context = <<>> THEN NoContentFound
     ELSE Flatten(Model(in, SummarizePrompt(context)))

\* a call of stream_document_chat
StreamCall ==
  /\ sd_in \in StreamInputs
  /\ sd_pc = "reading"
  /\ sd_events = <<>>

Yield(event) == sd_events' = Append(sd_events, event)

\* `if db and document_id:`
HighlightStage(db_given) == db_given

AfterSelecting_NoStatus(db_given) ==
  IF HighlightStage(db_given) THEN "preparing" ELSE "answer"

\* where the generator goes on after the selecting_sources status
AfterSelecting(db_given) ==
  IF HighlightStage(db_given) THEN "preparing" ELSE "writing"

\* yield status reading_document
StreamReading ==
  /\ sd_pc = "reading"
  /\ Yield(Status("reading_document"))
  /\ sd_pc' = IF sd_in.is_summary THEN "building" ELSE "checking"
  /\ UNCHANGED <<sd_in, ingestVars, generalVars, opVars, taskVars>>

\* summary mode: yield status building_chunks
StreamBuildingChunks ==
  /\ sd_pc = "building"
  /\ Yield(Status("building_chunks"))
  /\ sd_pc' = "writing"
  /\ UNCHANGED <<sd_in, ingestVars, generalVars, opVars, taskVars>>

\* yield status checking_rag_db
StreamCheckingRag ==
  /\ sd_pc = "checking"
  /\ Yield(Status("checking_rag_db"))
  /\ sd_pc' = "selecting"
  /\ UNCHANGED <<sd_in, ingestVars, generalVars, opVars, taskVars>>

\* yield status selecting_sources
StreamSelectingSources ==
  /\ sd_pc = "selecting"
  /\ Yield(Status("selecting_sources"))
  /\ sd_pc' = AfterSelecting(sd_in.db_given)
  /\ UNCHANGED <<sd_in, ingestVars, generalVars, opVars, taskVars>>

\* yield status preparing_highlight
StreamPreparingHighlight ==
  /\ sd_pc = "preparing"
  /\ Yield(Status("preparing_highlight"))
  /\ sd_pc' = "classify"
  /\ UNCHANGED <<sd_in, ingestVars, generalVars, opVars, taskVars>>

\* from the classification to the next yield: the highlight when there is
\* one, else the writing_answer status; .get on a value that is no dict
\* raises AttributeError outside the try block and the generator ends
StreamClassify ==
  /\ sd_pc = "classify"
  /\ LET intent == check_for_highlight(sd_in.highlight_response) IN
       IF intent.t # "object"
       THEN sd_pc' = "failed" /\ UNCHANGED sd_events
       ELSE IF WantsHighlight(intent) /\ Located(LookUp(intent.field_label))
       THEN Yield(Highlight(LookUp(intent.field_label)[1])) /\ sd_pc' = "writing"
       ELSE Yield(Status("writing_answer")) /\ sd_pc' = "answer"
  /\ UNCHANGED <<sd_in, ingestVars, generalVars, opVars, taskVars>>

\* yield status writing_answer
StreamWritingAnswer ==
  /\ sd_pc = "writing"
  /\ Yield(Status("writing_answer"))
  /\ sd_pc' = "answer"
  /\ UNCHANGED <<sd_in, ingestVars, generalVars, opVars, taskVars>>

\* answer tokens yielded so far
Sent == Cardinality({i \in 1..Len(sd_events) : sd_events[i].type = "answer_token"})

\* yield the next answer_token
StreamAnswerToken ==
  /\ sd_pc = "answer"
  /\ Sent < Len(sd_in.answer)
  /\ Yield(AnswerToken(sd_in.answer[Sent + 1]))
  /\ UNCHANGED <<sd_in, sd_pc, ingestVars, generalVars, opVars, taskVars>>

RaisedEvents_Done == <<Done>>

\* no handler surrounds the loop over the answer model's stream: nothing is
\* yielded when it raises
RaisedEvents == <<>>

\* the answer model's stream raises: the generator ends with the exception
StreamGenerationFails ==
  /\ sd_pc = "answer"
  /\ sd_pc' = "failed"
  /\ sd_events' = sd_events \o RaisedEvents
  /\ UNCHANGED <<sd_in, ingestVars, generalVars, opVars, taskVars>>

\* the answer model's stream is exhausted: yield done
StreamDone ==
  /\ sd_pc = "answer"
  /\ Sent = Len(sd_in.answer)
  /\ Yield(Done)
  /\ sd_pc' = "closed"
  /\ UNCHANGED <<sd_in, ingestVars, generalVars, opVars, taskVars>>

\* ------------------------------------------------------------------------
\* General questions: stream_general_tax_question (rag/chain.py) and its
\* caller POST /chat/general (routers/chat.py).  An async generator runs only
\* while its consumer awaits the next item: either the generator is iterated
\* directly, or by generate() of the request handler.
\* ------------------------------------------------------------------------
\* what _plan_chain.astream yields, piece by piece, as texts
PlanStreams == {<<>>, << <<"p">> >>, << <<>>, <<"p">>, <<"q">> >>}

\* what _general_chain.astream yields, piece by piece, as texts
GeneralAnswers ==
  {<<>>, << <<"a">> >>, << <<"a", " ">>, <<>>, <<"b", "\n", " ", "c">> >>}

\* the chat_id of the request: none, a general chat of the user, a chat bound
\* to a document, or no chat of the user
Sessions == {"new", "general", "document", "missing"}

GeneralInputs ==
  [caller : {"direct"}, session : {"new"}, plan : PlanStreams,
   plan_raises : BOOLEAN, answer : GeneralAnswers]
  \cup
  [caller : {"general_chat"}, session : Sessions, plan : PlanStreams,
   plan_raises : BOOLEAN, answer : GeneralAnswers]

\* a general question is asked
GeneralCall ==
  /\ sg_in \in GeneralInputs
  /\ sg_pc = "start"
  /\ sg_events = <<>>
  /\ gc_pc = IF sg_in.caller = "direct" THEN "direct" ELSE "request"
  /\ gc_lines = <<>>
  /\ full_answer = <<>>
  /\ gc_messages = <<>>

Thinking(status) == [type |-> "thinking", status |-> status]
PlanToken(text) == [type |-> "plan_token", text |-> text]
StatusUpdate == [type |-> "status_update", status |-> "responding"]

\* the consumer awaits the next item of the generator
Demand == gc_pc \in {"direct", "pull"}

\* the consumer gets an item, the end of the iteration or the exception
Deliver(outcome) == gc_pc' = IF gc_pc = "direct" THEN gc_pc ELSE outcome

GeneralYield(event) ==
  /\ sg_events' = Append(sg_events, event)
  /\ Deliver("body")

\* `if chunk:` keeps the plan pieces that are not empty; the "" that
\* generate_plan yields when the plan model raises is dropped as well
RECURSIVE PlanTokens(_)
PlanTokens(pieces) ==
  IF pieces = <<>> THEN <<>>
  ELSE (IF Head(pieces) # <<>> THEN <<Head(pieces)>> ELSE <<>>)
         \o PlanTokens(Tail(pieces))

Emitted(type) ==
  Cardinality({i \in 1..Len(sg_events) : sg_events[i].type = type})

\* 1. yield thinking start
GeneralThinkingStart ==
  /\ Demand
  /\ sg_pc = "start"
  /\ GeneralYield(Thinking("start"))
  /\ sg_pc' = "plan"
  /\ UNCHANGED <<sg_in, gc_lines, full_answer, gc_messages, ingestVars, streamVars, opVars, taskVars>>

generate_plan_YieldsError(in) ==
  in.plan \o (IF in.plan_raises THEN << <<"e">> >> ELSE <<>>)

\* what generate_plan yields: the pieces of _plan_chain.astream and, when the
\* stream raises, the "" of its `except Exception`
generate_plan(in) ==
  in.plan \o (IF in.plan_raises THEN << <<>> >> ELSE <<>>)

\* 2. yield the next plan_token
GeneralPlanToken ==
  /\ Demand
  /\ sg_pc = "plan"
  /\ Emitted("plan_token") < Len(PlanTokens(generate_plan(sg_in)))
  /\ GeneralYield(PlanToken(PlanTokens(generate_plan(sg_in))[Emitted("plan_token") + 1]))
  /\ UNCHANGED <<sg_in, sg_pc, gc_lines, full_answer, gc_messages, ingestVars, streamVars, opVars, taskVars>>

\* 3. the plan is exhausted (or its model raised): yield thinking end
GeneralThinkingEnd ==
  /\ Demand
  /\ sg_pc = "plan"
  /\ Emitted("plan_token") = Len(PlanTokens(generate_plan(sg_in)))
  /\ GeneralYield(Thinking("end"))
  /\ sg_pc' = "responding"
  /\ UNCHANGED <<sg_in, gc_lines, full_answer, gc_messages, ingestVars, streamVars, opVars, taskVars>>

\* 3. yield status_update responding
GeneralStatusUpdate ==
  /\ Demand
  /\ sg_pc = "responding"
  /\ GeneralYield(StatusUpdate)
  /\ sg_pc' = "answer"
  /\ UNCHANGED <<sg_in, gc_lines, full_answer, gc_messages, ingestVars, streamVars, opVars, taskVars>>

\* 4. yield the next answer_token
GeneralAnswerToken ==
  /\ Demand
  /\ sg_pc = "answer"
  /\ Emitted("answer_token") < Len(sg_in.answer)
  /\ GeneralYield(AnswerToken(sg_in.answer[Emitted("answer_token") + 1]))
  /\ UNCHANGED <<sg_in, sg_pc, gc_lines, full_answer, gc_messages, ingestVars, streamVars, opVars, taskVars>>

\* 4. the answer model's stream raises: the generator ends with the exception
GeneralGenerationFails ==
  /\ Demand
  /\ sg_pc = "answer"
  /\ sg_pc' = "failed"
  /\ sg_events' = sg_events \o RaisedEvents
  /\ Deliver("failed")
  /\ UNCHANGED <<sg_in, gc_lines, full_answer, gc_messages, ingestVars, streamVars, opVars, taskVars>>

Closing_DoneFirst == <<Done, Thinking("end")>>

\* the events yielded once the answer model's stream is exhausted
Closing == <<Thinking("end"), Done>>

\* 4. the answer is exhausted: yield thinking end once more
GeneralClosingThinking ==
  /\ Demand
  /\ sg_pc = "answer"
  /\ Emitted("answer_token") = Len(sg_in.answer)
  /\ GeneralYield(Closing[1])
  /\ sg_pc' = "finishing"
  /\ UNCHANGED <<sg_in, gc_lines, full_answer, gc_messages, ingestVars, streamVars, opVars, taskVars>>

\* 4. yield done
GeneralDone ==
  /\ Demand
  /\ sg_pc = "finishing"
  /\ GeneralYield(Closing[2])
  /\ sg_pc' = "returning"
  /\ UNCHANGED <<sg_in, gc_lines, full_answer, gc_messages, ingestVars, streamVars, opVars, taskVars>>

\* the generator returns: the iteration ends
GeneralReturn ==
  /\ Demand
  /\ sg_pc = "returning"
  /\ sg_pc' = "closed"
  /\ Deliver("ended")
  /\ UNCHANGED <<sg_in, sg_events, gc_lines, full_answer, gc_messages, ingestVars, streamVars, opVars, taskVars>>

\* --- POST /chat/general ---
ChatIdLine == [chat_id |-> "chat"]
TextLine(token) == [text |-> token]
UserMessage == [role |-> "user", content |-> <<"q">>]
AssistantMessage(content) == [role |-> "assistant", content |-> content]

\* 1. get or create the chat session: 404 when the chat is not the user's,
\* 400 when it is bound to a document; any store call can raise
GeneralChatSession ==
  /\ gc_pc = "request"
  /\ \/ /\ sg_in.session \in {"new", "general"}
        /\ gc_pc' = "user_message"
     \/ gc_pc' = "rejected"
  /\ UNCHANGED <<sg_in, sg_pc, sg_events, gc_lines, full_answer, gc_messages,
                 ingestVars, streamVars, opVars, taskVars>>

\* .limit(10) of the history query
history_limit == 10

\* the chat_messages of an existing general session before the request:
\* earlier questions and answers, more of them than the history query returns
PriorMessages ==
  [i \in 1..history_limit |->
     IF i % 2 = 1 THEN [role |-> "user", content |-> <<"h", ToString(i)>>]
     ELSE AssistantMessage(<<"r", ToString(i)>>)]

\* 3.5 the history of the request: empty for a session the request created
\* (and for a direct call), else the last history_limit messages of the
\* chat, oldest first, read after the user message of the turn was stored
chat_history(in) ==
  IF in.caller = "general_chat" /\ in.session = "general"
  THEN LET stored == Append(PriorMessages, UserMessage)
       IN SubSeq(stored, Len(stored) - history_limit + 1, Len(stored))
  ELSE <<>>

\* stream_general_tax_question appends the question to the history it was
\* given and hands that list to _general_chain.astream
AnswerCallHistory(in) == Append(chat_history(in), UserMessage)

\* stream_general_tax_question passes the list it has appended the question
\* to; generate_plan copies it and appends the question before
\* _plan_chain.astream
PlanCallHistory(in) == Append(AnswerCallHistory(in), UserMessage)

GenerateEntry_Loop == "pull"

\* generate() starts with the yield of the chat_id line
GenerateEntry == "send_id"

\* 2.-3.5 store the user message, read the profile and the history, and
\* return the streaming response; any store call can raise
GeneralChatUserMessage ==
  /\ gc_pc = "user_message"
  /\ \/ /\ gc_messages' = Append(gc_messages, UserMessage)
        /\ gc_pc' \in {GenerateEntry, "rejected"}
     \/ /\ gc_pc' = "rejected"
        /\ UNCHANGED gc_messages
  /\ UNCHANGED <<sg_in, sg_pc, sg_events, gc_lines, full_answer, ingestVars, streamVars, opVars, taskVars>>

\* the Python value the generator hands to its consumer: every yield of
\* stream_general_tax_question is a dict
Dict(event) == [py |-> "dict", value |-> event]
Yielded == Dict(sg_events[Len(sg_events)])

\* `full_answer += chunk` on a str: anything but a str raises TypeError
CanConcat(chunk) == chunk.py = "str"

\* re.split(r'(\s+)', chunk) without the empty items: the maximal runs of
\* whitespace and of other characters, in order
RECURSIVE RunLength(_, _)
RunLength(text, k) ==
  IF k < Len(text) /\ ((text[k + 1] \in Whitespace) <=> (text[1] \in Whitespace))
  THEN RunLength(text, k + 1) ELSE k

RECURSIVE Tokens(_)
Tokens(text) ==
  IF text = <<>> THEN <<>>
  ELSE LET k == RunLength(text, 1)
       IN <<SubSeq(text, 1, k)>> \o Tokens(SubSeq(text, k + 1, Len(text)))

TokenLines(text) == [i \in 1..Len(Tokens(text)) |-> TextLine(Tokens(text)[i])]

LoopEnded_Always(pc) == TRUE

\* the `async for` loop is over when the generator has returned
LoopEnded(pc) == pc = "ended"

\* one step of generate(): the chat_id line, the body of the loop for the
\* item received, or the insert of the assistant message after the loop
Generate ==
  /\ gc_pc \in {"send_id", "body", "ended"}
  /\ \/ /\ gc_pc = "send_id"
        /\ gc_lines' = Append(gc_lines, ChatIdLine)
        /\ gc_pc' = "pull"
        /\ UNCHANGED <<full_answer, gc_messages>>
     \/ /\ gc_pc = "body"
        /\ ~LoopEnded(gc_pc)
        /\ IF CanConcat(Yielded)
           THEN /\ full_answer' = full_answer \o Yielded.value
                /\ gc_lines' = gc_lines \o TokenLines(Yielded.value)
                /\ gc_pc' = "pull"
           ELSE /\ gc_pc' = "failed"
                /\ UNCHANGED <<full_answer, gc_lines>>
        /\ UNCHANGED gc_messages
     \/ /\ LoopEnded(gc_pc)
        /\ \/ /\ gc_messages' = Append(gc_messages, AssistantMessage(full_answer))
              /\ gc_pc' = "finished"
           \/ /\ gc_pc' = "failed"
              /\ UNCHANGED gc_messages
        /\ UNCHANGED <<full_answer, gc_lines>>
  /\ UNCHANGED <<sg_in, sg_pc, sg_events, ingestVars, streamVars, opVars, taskVars>>

\* the client disconnects while generate() is suspended: it is cancelled
ClientDisconnects ==
  /\ gc_pc \in {"send_id", "pull"}
  /\ gc_pc' = "disconnected"
  /\ UNCHANGED <<sg_in, sg_pc, sg_events, gc_lines, full_answer, gc_messages,
                 ingestVars, streamVars, opVars, taskVars>>

StreamNext ==
  \/ StreamReading
  \/ StreamBuildingChunks
  \/ StreamCheckingRag
  \/ StreamSelectingSources
  \/ StreamPreparingHighlight
  \/ StreamClassify
  \/ StreamWritingAnswer
  \/ StreamAnswerToken
  \/ StreamGenerationFails
  \/ StreamDone
  \/ GeneralThinkingStart
  \/ GeneralPlanToken
  \/ GeneralThinkingEnd
  \/ GeneralStatusUpdate
  \/ GeneralAnswerToken
  \/ GeneralGenerationFails
  \/ GeneralClosingThinking
  \/ GeneralDone
  \/ GeneralReturn
  \/ GeneralChatSession
  \/ GeneralChatUserMessage
  \/ Generate
  \/ ClientDisconnects

\* one question, for every input: a call of stream_document_chat or a general
\* question; nothing is ingested
StreamInit ==
  /\ doc_status = "absent"
  /\ error_message = <<>>
  /\ storage = 1
  /\ chunk_rows = {}
  /\ chats = 0
  /\ summaries = 0
  /\ run = [r \in Runs |-> IdleRun]
  /\ save_pc = "idle"
  /\ response = NoResponse
  /\ last_ready_rows = {}
  /\ \/ StreamCall /\ GeneralOff
     \/ StreamOff /\ GeneralCall
  /\ OpOff
  /\ TasksOff

SpecStream == StreamInit /\ [][StreamNext]_vars

\* ------------------------------------------------------------------------
\* Retrieval (rag/retriever.py) over the document_chunks table
\* ------------------------------------------------------------------------
\* default arguments of retrieve_chunks; the threshold 0.40 in hundredths
top_k == 10
threshold == 40

\* the document_chunks table: the rows of the document "D" and one row of
\* another document "E"
document_chunks(rows) ==
  {[document_id |-> "D", chunk |-> r] : r \in rows}
    \cup {[document_id |-> "E",
           chunk |-> [run |-> 1, chunk_index |-> 0, chunk_text |-> <<"e">>,
                      page |-> 1, embedding |-> [of |-> <<"e">>]]]}

\* ORDER BY key ascending, on a set of [key, row] pairs; rows with equal keys
\* come in some order
RECURSIVE OrderBy(_)
OrderBy(keyed) ==
  IF keyed = {} THEN <<>>
  ELSE LET first == CHOOSE k \in keyed : \A o \in keyed : k.key <= o.key
       IN <<first.row>> \o OrderBy(keyed \ {first})

\* the match_chunks function of the database. sims[i + 1] is the cosine
\* similarity, in hundredths, between the query vector and the vector of the
\* chunk with index i of "D"; the chunk of "E" is close to every query.
match_chunks(table, sims, params) ==
  LET Similarity(t) == IF t.document_id = "D" THEN sims[t.chunk.chunk_index + 1] ELSE 95
      hits == {t \in table : /\ t.document_id = params.doc_id
                             /\ Similarity(t) >= params.match_threshold}
      ordered == OrderBy({[key |-> 100 - Similarity(t),
                           row |-> [document_id |-> t.document_id, chunk |-> t.chunk,
                                    similarity |-> Similarity(t)]] : t \in hits})
  IN SubSeq(ordered, 1, Min(params.match_count, Len(ordered)))

RpcParams_OneMore(document_id, k, th) ==
  [doc_id |-> document_id, match_count |-> k + 1, match_threshold |-> th]

\* the arguments of supabase.rpc("match_chunks", ...)
RpcParams(document_id, k, th) ==
  [doc_id |-> document_id, match_count |-> k, match_threshold |-> th]

\* retrieve_chunks, once embed_query has returned the query vector
retrieve_chunks(table, sims, document_id, k, th) ==
  match_chunks(table, sims, RpcParams(document_id, k, th))

\* retrieve_all_chunks: .eq("document_id", ...).order("chunk_index", desc=False)
retrieve_all_chunks(table, document_id) ==
  OrderBy({[key |-> t.chunk.chunk_index, row |-> t] :
             t \in {u \in table : u.document_id = document_id}})

\* N chunks with distinct texts, and the rows a run stores for them
SomeChunks(n) == [i \in 1..n |-> [text |-> <<ToString(i)>>, index |-> i - 1, page |-> 1]]
Stored(n) == Rows(1, SomeChunks(n), EmbedAll(SomeChunks(n)))

\* ------------------------------------------------------------------------
\* POST /chat and POST /chat/summarize (routers/chat.py)
\* ------------------------------------------------------------------------
DocStatuses == {"absent", "pending", "processing", "ready", "error"}

\* the store and model calls chat and summarize_document make once the
\* document is verified, in order
HandlerCalls(in) ==
  IF in.op = "chat"
  THEN (IF in.chat_id = <<>> THEN <<"insert_chat">> ELSE <<>>)
         \o <<"insert_user_message", "retrieve_chunks", "answer_question",
              "insert_assistant_message">>
  ELSE <<"insert_chat", "select_chunks", "summarize_document_sections",
         "insert_assistant_message">>

\* a request: chat_id is <<>> (start a new session) or <<id>>; fails names
\* the call that raises, if any; sims is how close each chunk is to the question
HandlerInputs ==
  [op : {"chat"}, chat_id : {<<>>, <<7>>}, sims : {<<39, 20>>, <<40, 95>>},
   fails : {"none", "select_document", "insert_chat", "insert_user_message",
            "retrieve_chunks", "answer_question", "insert_assistant_message"}]
    \cup
  [op : {"summarize"}, chat_id : {<<>>}, sims : {<<40, 95>>},
   fails : {"none", "select_document", "insert_chat", "select_chunks",
            "summarize_document_sections", "insert_assistant_message"}]

NotReady_OnlyError(status) == status = "error"

\* `if doc.data["ingest_status"] != "ready"`
NotReady(status) == status # "ready"

\* step 1 of both handlers: the document is selected and checked
HandlerVerify ==
  /\ op_pc = "called"
  /\ op_in.op \in {"chat", "summarize"}
  /\ op_log' = Append(op_log, "select_document")
  /\ IF op_in.fails = "select_document"
     THEN op_pc' = "done" /\ op_out' = [status |-> 500]
     ELSE IF doc_status = "absent"
     THEN op_pc' = "done" /\ op_out' = [status |-> 404]
     ELSE IF NotReady(doc_status)
     THEN op_pc' = "done" /\ op_out' = [status |-> 400]
     ELSE op_pc' = "verified" /\ op_out' = op_out
  /\ UNCHANGED <<op_in, ingestVars, streamVars, generalVars, taskVars>>

\* the chunks the handler works on: the retrieved ones, or all of them
HandlerChunks(in, rows) ==
  LET found == IF in.op = "chat"
               THEN retrieve_chunks(document_chunks(rows), in.sims, "D", top_k, threshold)
               ELSE retrieve_all_chunks(document_chunks(rows), "D")
  IN [i \in 1..Len(found) |->
        [page |-> found[i].chunk.page, chunk_text |-> found[i].chunk.chunk_text]]

\* the ChatResponse of a request that comes to its end
ChatResponse(in, rows) ==
  LET chunks == HandlerChunks(in, rows)
      asked == [is_summary |-> in.op = "summarize", chunks |-> chunks,
                answer |-> << <<"x">> >>, other |-> << <<"y">> >>]
  IN [status |-> 200,
      answer |-> IF in.op = "chat" THEN answer_question(asked)
                 ELSE summarize_document_sections(asked),
      sources |-> IF in.op = "chat" THEN chunks
                  ELSE SubSeq(chunks, 1, Min(5, Len(chunks)))]

\* steps 2 to 7: the next call of the handler; a call that raises ends the
\* request with a 500, the last call is followed by the response
HandlerCall ==
  /\ op_pc = "verified"
  /\ LET calls == HandlerCalls(op_in)
         call == calls[Len(op_log)]
     IN /\ op_log' = Append(op_log, call)
        /\ chats' = IF call = "insert_chat" /\ op_in.fails # call THEN chats + 1 ELSE chats
        /\ IF op_in.fails = call
           THEN op_pc' = "done" /\ op_out' = [status |-> 500]
           ELSE IF Len(op_log) = Len(calls)
           THEN op_pc' = "done" /\ op_out' = ChatResponse(op_in, chunk_rows)
           ELSE op_pc' = "verified" /\ op_out' = op_out
  /\ UNCHANGED <<doc_status, error_message, storage, chunk_rows, summaries, run,
                 save_pc, response, last_ready_rows>>
  /\ UNCHANGED <<op_in, streamVars, generalVars, taskVars>>

\* ------------------------------------------------------------------------
\* embed_texts and embed_query under tenacity's @retry (rag/embedder.py)
\* ------------------------------------------------------------------------
\* stop_after_attempt(3)
MaxAttempts == 3

\* what the embedding service does on the 1st, 2nd, ... call of one invocation
EmbedInputs ==
  [op : {"embed_texts", "embed_query"}, text : {<<"q">>},
   outcomes : [1..(MaxAttempts + 1) -> {"ok", "transient", "malformed"}]]

\* @retry is given no `retry=` argument: tenacity retries on every exception
Retried(error) == error \in {"transient", "malformed"}

Stop_OneMore(attempt) == attempt >= MaxAttempts + 1

\* stop=stop_after_attempt(3)
Stop(attempt) == attempt >= MaxAttempts

\* one attempt: the decorated body runs and calls the embedding service once.
\* Its result is returned; an exception is retried after the wait unless the
\* stop condition holds, and then tenacity raises RetryError.
EmbedAttempt ==
  /\ op_pc = "called"
  /\ op_in.op \in {"embed_texts", "embed_query"}
  /\ LET attempt == Len(op_log) + 1
         outcome == op_in.outcomes[attempt]
     IN /\ op_log' = Append(op_log, outcome)
        /\ IF outcome = "ok"
           THEN /\ op_pc' = "done"
                /\ op_out' = [outcome |-> "returned",
                              value |-> IF op_in.op = "embed_texts"
                                        THEN embed_texts(<<op_in.text>>)
                                        ELSE embed_texts(<<op_in.text>>)[1]]
           ELSE IF Retried(outcome) /\ ~Stop(attempt)
           THEN op_pc' = "called" /\ op_out' = op_out
           ELSE /\ op_pc' = "done"
                /\ op_out' = [outcome |-> "raised",
                              value |-> IF Retried(outcome) THEN "RetryError" ELSE outcome]
  /\ UNCHANGED <<op_in, ingestVars, streamVars, generalVars, taskVars>>

\* ------------------------------------------------------------------------
\* Steps 5 and 6 of the pipeline on N chunks (routers/documents.py)
\* ------------------------------------------------------------------------
\* numbers of chunks around the batch size
BatchInputs == [op : {"embed_and_insert"}, n : {0, 1, batch_size, batch_size + 1, 2 * batch_size + 1}]

\* the embedding loop and the rows built from its result: op_log takes the
\* batches embed_texts was called on, op_out the rows
EmbedAndInsert ==
  /\ op_pc = "called"
  /\ op_in.op = "embed_and_insert"
  /\ LET chunks == SomeChunks(op_in.n)
     IN /\ op_log' = Batches([i \in 1..Len(chunks) |-> chunks[i].text], 0)
        /\ op_out' = Rows(1, chunks, EmbedAll(chunks))
  /\ op_pc' = "done"
  /\ UNCHANGED <<op_in, ingestVars, streamVars, generalVars, taskVars>>

\* ------------------------------------------------------------------------
\* One call of retrieve_chunks (rag/retriever.py)
\* ------------------------------------------------------------------------
\* the similarities of the stored chunks to the query: none clears the
\* threshold, one sits on it, more than top_k clear it
RetrieveInputs ==
  [op : {"retrieve_chunks"}, document_id : {"D", "X"},
   sims : {<<39, 20>>, <<40, 95, 39>>, [i \in 1..(top_k + 2) |-> 40 + (i % 5)]},
   top_k : {top_k, 1}, fails : {"none", "embed_query", "rpc"}]

\* embed_query, the rpc, and `return result.data or []`; an exception of
\* either call leaves the function
RetrieveChunks ==
  /\ op_pc = "called"
  /\ op_in.op = "retrieve_chunks"
  /\ op_log' = IF op_in.fails = "embed_query" THEN <<"embed_query">>
               ELSE <<"embed_query", "rpc">>
  /\ op_out' = IF op_in.fails # "none"
               THEN [outcome |-> "raised", value |-> op_in.fails]
               ELSE [outcome |-> "returned",
                     value |-> retrieve_chunks(document_chunks(chunk_rows), op_in.sims,
                                               op_in.document_id, op_in.top_k, threshold)]
  /\ op_pc' = "done"
  /\ UNCHANGED <<op_in, ingestVars, streamVars, generalVars, taskVars>>

\* ------------------------------------------------------------------------
\* One call of chunk_document (rag/chunker.py)
\* ------------------------------------------------------------------------
\* page lists: none, the uploaded files, and a form whose pages give several
\* chunks each, with a whitespace page between them
ChunkInputs ==
  [op : {"chunk_document"},
   pages : {<<>>, extract_pages(1), extract_pages(2),
            << [page |-> 1, text |-> <<"a", "b", "c", "d", "e">>, fields |-> <<"Box 1", "5">>],
               [page |-> 2, text |-> <<Blank, "\n">>, fields |-> <<"Box 2", "8">>],
               [page |-> 3, text |-> <<"v", "w", "x", "y">>, fields |-> <<>>] >>},
   sizes : {<<chunk_size, chunk_overlap>>, <<3, 1>>, <<3, 2>>, <<2, 0>>}]

ChunkDocument ==
  /\ op_pc = "called"
  /\ op_in.op = "chunk_document"
  /\ op_out' = ChunkPages(op_in.pages, 0, op_in.sizes[1], op_in.sizes[2])
  /\ op_pc' = "done"
  /\ UNCHANGED <<op_in, op_log, ingestVars, streamVars, generalVars, taskVars>>

\* ------------------------------------------------------------------------
\* One call of find_field_location (rag/highlightExtractor.py)
\* ------------------------------------------------------------------------
\* labels that hit in each stage, in upper and lower case, with and without
\* blanks around them, labels that hit nowhere, and labels without any name
LocateInputs ==
  [op : {"find_field_location"}, document_id : {"D", "E"},
   field_label : {<<"S", "p", "o", "u", "s", "e", " ", "S", "S", "N">>,
                  <<" ", "l", "a", "s", "t", " ", "n", "a", "m", "e", " ">>,
                  <<"T", "a", "x">>, <<"s", "s", "n">>, <<"w", "a", "g", "e">>,
                  <<"i", "n", "i", "t", "i", "a", "l">>, <<"L", "i", "n", "e", " ", "1", "6">>,
                  <<"q", "q">>, <<>>, <<" ", " ">>}]

FindFieldLocation_PerDocument ==
  /\ op_pc = "called"
  /\ op_in.op = "find_field_location"
  /\ op_out' = IF op_in.document_id = "D" /\ chunk_rows # {}
               THEN find_field_location(op_in.field_label) ELSE <<>>
  /\ op_pc' = "done"
  /\ UNCHANGED <<op_in, op_log, ingestVars, streamVars, generalVars, taskVars>>

\* the store and document_id are not read: the catalog alone is searched
FindFieldLocation ==
  /\ op_pc = "called"
  /\ op_in.op = "find_field_location"
  /\ op_out' = find_field_location(op_in.field_label)
  /\ op_pc' = "done"
  /\ UNCHANGED <<op_in, op_log, ingestVars, streamVars, generalVars, taskVars>>

\* ------------------------------------------------------------------------
\* One call of one operation
\* ------------------------------------------------------------------------
OpInputs == HandlerInputs \cup EmbedInputs \cup BatchInputs \cup RetrieveInputs
    \cup ChunkInputs \cup LocateInputs

OpNext ==
  \/ HandlerVerify
  \/ HandlerCall
  \/ EmbedAttempt
  \/ EmbedAndInsert
  \/ RetrieveChunks
  \/ ChunkDocument
  \/ FindFieldLocation

\* a state a call can start in: the document in any status, with the rows of
\* a completed run when it is ready
OpInit ==
  /\ op_in \in OpInputs
  /\ op_pc = "called"
  /\ op_log = <<>>
  /\ op_out = <<>>
  /\ doc_status \in (IF op_in.op \in {"chat", "summarize"} THEN DocStatuses
                     ELSE IF op_in.op = "retrieve_chunks" THEN {"ready"}
                     ELSE IF op_in.op = "find_field_location" THEN {"absent", "ready"}
                     ELSE {"absent"})
  /\ chunk_rows = IF doc_status # "ready" THEN {}
                  ELSE IF op_in.op = "find_field_location" THEN Stored(2)
                  ELSE Stored(Len(op_in.sims))
  /\ error_message = IF doc_status = "error" THEN <<MaxErrLen>> ELSE <<>>
  /\ storage = 1
  /\ chats = 0
  /\ summaries = 0
  /\ run = [r \in Runs |-> IdleRun]
  /\ save_pc = "idle"
  /\ response = NoResponse
  /\ last_ready_rows = chunk_rows
  /\ StreamOff
  /\ GeneralOff
  /\ TasksOff

SpecOps == OpInit /\ [][OpNext]_vars

\* ------------------------------------------------------------------------
\* POST /tasks/sync_from_questionnaire (routers/tasks.py).  Titles and
\* descriptions are sequences of text pieces; a missing form_code is "None".
\* ------------------------------------------------------------------------
\* default filing_year of SyncTasksRequest
filing_year == 2024

INCOME_TO_FORMS ==
  [source \in {"w2", "1099_nec", "1099_int", "1099_div", "investments", "1098_t", "rental"} |->
     CASE source = "w2" -> {"W-2"}
       [] source = "1099_nec" -> {"1099-NEC", "Schedule C"}
       [] source = "1099_int" -> {"1099-INT"}
       [] source = "1099_div" -> {"1099-DIV"}
       [] source = "investments" -> {"1099-B", "Schedule D"}
       [] source = "1098_t" -> {"1098-T"}
       [] source = "rental" -> {"Schedule E"}]

FORM_8843_VISAS == {"F-1", "F-2", "J-1", "J-2", "OPT", "STEM OPT"}

RESIDENCY_TO_FORM ==
  [residency \in {"citizen", "permanent_resident", "resident_alien", "nonresident_alien",
                  "dual_status", "unsure"} |->
     IF residency = "nonresident_alien" THEN "1040-NR" ELSE "1040"]

\* the questionnaires a user can save: a citizen without income forms, and
\* filers of each other residency with a visa, income forms, two states and
\* dependents
Questionnaires ==
  [filing_status : {"single", "married"}, residency_status : {"citizen"},
   visa_type : {""}, income_sources : {{}}, states_worked : {<<>>},
   num_dependents : {0}]
    \cup
  [filing_status : {"single"}, residency_status : {"nonresident_alien", "unsure"},
   visa_type : {"F-1"}, income_sources : {{"w2", "1099_nec"}},
   states_worked : {<<"CA", "NY">>}, num_dependents : {2}]
    \cup
  [filing_status : {"single"}, residency_status : {"dual_status"},
   visa_type : {"F-1"}, income_sources : {{"investments", "rental"}},
   states_worked : {<<"CA", "NY">>}, num_dependents : {2}]

\* the form codes the forms_catalog table knows
forms_catalog ==
  {"1040", "1040-NR", "W-2", "1099-NEC", "1099-INT", "1099-DIV", "1099-B",
   "1098-T", "Schedule C", "Schedule D", "Form 8843"}

get_recommended_form_codes(q) ==
  {RESIDENCY_TO_FORM[q.residency_status]}
    \cup (IF q.residency_status = "dual_status" THEN {"1040-NR"} ELSE {})
    \cup UNION {INCOME_TO_FORMS[source] : source \in q.income_sources}
    \cup (IF q.visa_type # "" /\ q.visa_type \in FORM_8843_VISAS THEN {"Form 8843"} ELSE {})

\* _build_tasks: the recommended tasks, in the order they are appended
build_tasks(q) ==
  LET Task(group, title, description, form_code) ==
        [group |-> group, title |-> title, description |-> description,
         form_code |-> form_code]
      If(cond, task) == IF cond THEN <<task>> ELSE <<>>
      Upload(source, title, description, form_code) ==
        If(source \in q.income_sources,
           Task("Tax Forms", <<title>>, <<description>>, form_code))
      primary_form == RESIDENCY_TO_FORM[q.residency_status]
  IN <<Task("Personal", <<"Gather personal identification">>,
            <<"SSN or ITIN, passport/visa, prior year tax return">>, "None"),
       Task("Personal", <<"Confirm your filing status">>,
            <<"Currently set to: ", q.filing_status>>, "None")>>
     \o If(q.num_dependents > 0,
           Task("Personal", <<"Gather dependent information">>,
                <<ToString(q.num_dependents),
                  " dependent(s): SSN/ITIN, date of birth, relationship">>, "None"))
     \o Upload("w2", "Upload W-2 (Wage and Tax Statement)",
               "Reports wages paid and taxes withheld by your employer", "W-2")
     \o Upload("1099_nec", "Upload 1099-NEC (Nonemployee Compensation)",
               "Reports freelance/self-employment income", "1099-NEC")
     \o Upload("1099_int", "Upload 1099-INT (Interest Income)",
               "Reports interest earned from bank accounts", "1099-INT")
     \o Upload("1099_div", "Upload 1099-DIV (Dividends and Distributions)",
               "Reports dividends from investments", "1099-DIV")
     \o Upload("investments", "Upload 1099-B (Broker Transactions)",
               "Reports stock/crypto sale proceeds", "1099-B")
     \o Upload("1098_t", "Upload 1098-T (Tuition Statement)",
               "Reports tuition paid for education credits", "1098-T")
     \o Upload("rental", "Upload Schedule E (Rental Income)",
               "Reports rental income and losses", "Schedule E")
     \o If(primary_form = "1040",
           Task("Tax Forms", <<"Complete Form 1040 (US Individual Income Tax Return)">>,
                <<"Main federal tax return for residents/citizens">>, "1040"))
     \o If(primary_form = "1040-NR",
           Task("Tax Forms", <<"Complete Form 1040-NR (Nonresident Alien Tax Return)">>,
                <<"Federal tax return for nonresident aliens">>, "1040-NR"))
     \o If(q.residency_status = "dual_status",
           Task("Tax Forms", <<"Complete Form 1040-NR (Dual Status, Nonresident portion)">>,
                <<"Required in addition to 1040 for dual-status filers">>, "1040-NR"))
     \o If("1099_nec" \in q.income_sources,
           Task("Work Forms", <<"Track business expenses for Schedule C">>,
                <<"Home office, equipment, software, mileage">>, "Schedule C"))
     \o If("investments" \in q.income_sources,
           Task("Tax Forms", <<"Complete Schedule D (Capital Gains and Losses)">>,
                <<"Summary of investment gains/losses">>, "Schedule D"))
     \o If(q.visa_type \in FORM_8843_VISAS,
           Task("Tax Forms", <<"Prepare Form 8843 (", q.visa_type, " visa)">>,
                <<"Required for exempt individuals">>, "Form 8843"))
     \o If(Len(q.states_worked) > 1,
           Task("Other", <<"File state returns for: ">> \o q.states_worked,
                <<"You worked in multiple states">>, "None"))
     \o If(q.residency_status = "unsure",
           Task("Personal", <<"Determine your tax residency status">>,
                <<"Apply the Substantial Presence Test">>, "None"))

\* rows of the tasks table that no sync of this filing year created: two
\* tasks the user made (one with the group and title of a recommended task)
\* and a questionnaire task of the year before
OtherTasks ==
  {[id |-> 101, source |-> "user", year |-> filing_year, group |-> "Personal",
    title |-> <<"Gather personal identification">>, description |-> <<"mine">>,
    form_code |-> "None", sort_order |-> 0, status |-> "done"],
   [id |-> 102, source |-> "user", year |-> filing_year, group |-> "Other",
    title |-> <<"Call my accountant">>, description |-> <<>>,
    form_code |-> "W-2", sort_order |-> 1, status |-> "not_started"],
   [id |-> 103, source |-> "questionnaire", year |-> filing_year - 1, group |-> "Personal",
    title |-> <<"Confirm your filing status">>, description |-> <<"Currently set to: ", "single">>,
    form_code |-> "None", sort_order |-> 1, status |-> "done"]}

ExistingTasks_AnySource(table) == {t \in table : t.year = filing_year}

\* the select .eq("filing_year", ...).eq("source", "questionnaire") of the user's tasks
ExistingTasks(table) == {t \in table : t.year = filing_year /\ t.source = "questionnaire"}

SameTask_Never(t, rec) == FALSE

\* `key = (group_name, rec["title"])`, looked up in existing_by_key
SameTask(t, rec) == t.group = rec.group /\ t.title = rec.title

\* the loop over the recommended tasks from position idx on: a task whose
\* (group, title) is among `existing` is updated, any other is inserted with
\* a fresh id
RECURSIVE Upsert(_, _, _, _)
Upsert(recs, idx, existing, acc) ==
  IF idx >= Len(recs) THEN acc
  ELSE LET rec == recs[idx + 1]
           found == {t \in existing : SameTask(t, rec)}
           old == CHOOSE t \in found : TRUE
           id == CHOOSE i \in 1..(Cardinality(acc.table) + 1) :
                   \A t \in acc.table : t.id # i
       IN IF found # {}
          THEN Upsert(recs, idx + 1, existing,
                 [acc EXCEPT !.table = {IF t.id = old.id
                                        THEN [t EXCEPT !.description = rec.description,
                                                       !.form_code = rec.form_code,
                                                       !.sort_order = idx,
                                                       !.source = "questionnaire"]
                                        ELSE t : t \in acc.table},
                             !.updated = @ + 1,
                             !.kept = @ \cup {old.id}])
          ELSE Upsert(recs, idx + 1, existing,
                 [acc EXCEPT !.table = @ \cup
                                {[id |-> id, source |-> "questionnaire", year |-> filing_year,
                                  group |-> rec.group, title |-> rec.title,
                                  description |-> rec.description,
                                  form_code |-> rec.form_code, sort_order |-> idx,
                                  status |-> "not_started"]},
                             !.created = @ + 1])

\* the user saves the questionnaire of the filing year
SaveQuestionnaire ==
  /\ \E q \in Questionnaires : questionnaire' = <<q>>
  /\ sync_response' = [op |-> "save_questionnaire", status |-> 200]
  /\ UNCHANGED <<task_groups, tasks, checklist>>
  /\ UNCHANGED <<ingestVars, streamVars, generalVars, opVars>>

\* sync_tasks_from_questionnaire
SyncTasks ==
  /\ IF questionnaire = <<>>
     THEN /\ sync_response' = [op |-> "sync_tasks", status |-> 400]
          /\ UNCHANGED <<task_groups, tasks, checklist>>
     ELSE LET q == questionnaire[1]
              recommended_tasks == build_tasks(q)
              existing_tasks == ExistingTasks(tasks)
              done == Upsert(recommended_tasks, 0, existing_tasks,
                             [table |-> tasks, created |-> 0, updated |-> 0, kept |-> {}])
              obsolete_ids == {t.id : t \in existing_tasks} \ done.kept
              catalog_forms == get_recommended_form_codes(q) \cap forms_catalog
          IN /\ task_groups' = task_groups \cup
                                 {recommended_tasks[i].group : i \in 1..Len(recommended_tasks)}
             /\ tasks' = {t \in done.table : t.id \notin obsolete_ids}
             /\ checklist' = catalog_forms
             /\ sync_response' = [op |-> "sync_tasks", status |-> 200,
                                  created |-> done.created, updated |-> done.updated,
                                  deleted |-> Cardinality(obsolete_ids),
                                  checklist_count |-> Cardinality(catalog_forms)]
  /\ UNCHANGED <<questionnaire, ingestVars, streamVars, generalVars, opVars>>

TasksNext ==
  \/ SaveQuestionnaire
  \/ SyncTasks

\* a user without a questionnaire yet, whose task table is empty or holds the
\* rows no sync of this year made
TasksInit ==
  /\ questionnaire = <<>>
  /\ tasks \in {{}, OtherTasks}
  /\ task_groups = {t.group : t \in tasks}
  /\ checklist = {}
  /\ sync_response = NoResponse
  /\ doc_status = "absent"
  /\ error_message = <<>>
  /\ storage = 1
  /\ chunk_rows = {}
  /\ chats = 0
  /\ summaries = 0
  /\ run = [r \in Runs |-> IdleRun]
  /\ save_pc = "idle"
  /\ response = NoResponse
  /\ last_ready_rows = {}
  /\ StreamOff
  /\ GeneralOff
  /\ OpOff

SpecTasks == TasksInit /\ [][TasksNext]_vars

\* ------------------------------------------------------------------------
\* Steps of a run, as seen on one transition
\* ------------------------------------------------------------------------
\* positions of the pipeline body, before `ready` is written
PipelinePcs == {"queued", "download", "extract", "chunk", "embed", "insert", "mark_ready"}

\* run r's update ingest_status = ready succeeds on this step
WroteReady(r) == run[r].pc = "mark_ready" /\ run'[r].pc = "summarize"

\* run r's handler writes ingest_status = error on this step
WroteError(r) == run[r].pc \in PipelinePcs /\ run'[r].pc = "done"

\* a call of run r raises on this step and the handler's update raises too
Escaped(r) == run[r].pc \in PipelinePcs /\ run'[r].pc = "escaped"

\* ingest_document schedules run r on this step
IngestScheduled(r) ==
  run[r].pc = "idle" /\ run'[r].pc = "queued" /\ run'[r].origin = "ingest"

\* ------------------------------------------------------------------------
\* Claims
\* ------------------------------------------------------------------------

\* C1: an ingest request for a document whose ingest_status is processing
\* answers already_processing, schedules no run, and changes neither the
\* document's status nor its chunks.
C1_IngestWhileProcessingIsNoOp ==
  [][ /\ (doc_status = "processing" /\ response' # response /\ response'.op = "ingest")
         => (response'.status = "already_processing"
             /\ UNCHANGED <<doc_status, error_message, chunk_rows, run>>)
      /\ \A r \in Runs : IngestScheduled(r) => doc_status # "processing" ]_vars

C1_Witness ==
  /\ doc_status = "processing"
  /\ response = [op |-> "ingest", status |-> "already_processing"]

\* C2: at any moment at most one ingestion run of the document is active.
C2_AtMostOneActiveRun == Cardinality(ActiveRuns) <= 1

\* C3: whenever the document is ready, its stored chunk set is exactly the
\* set of rows written by its most recent successful run.
C3_ReadyChunksAreLastRun == doc_status = "ready" => chunk_rows = last_ready_rows

ChunkIndexes == {row.chunk_index : row \in chunk_rows}

\* C4: a ready document has at least one stored chunk and its chunk indexes
\* are exactly 0..N-1, each once.
C4_ReadyHasContiguousChunks ==
  doc_status = "ready" =>
    /\ chunk_rows # {}
    /\ ChunkIndexes = 0..(Cardinality(chunk_rows) - 1)

\* what a run has behind it when it writes ready
PipelineCompleted(rec) ==
  /\ rec.steps = <<"mark_processing", "download", "extract", "chunk", "embed", "insert">>
  /\ Len(rec.chunks) >= 1
  /\ Len(rec.embeddings) = Len(rec.chunks)
  /\ \A i \in 1..Len(rec.chunks) : rec.embeddings[i] = [of |-> rec.chunks[i].text]

\* C5: ingest_status becomes ready only by a run for which extraction returned,
\* chunking produced at least one chunk, every chunk received an embedding and
\* the insert completed; a run with zero chunks never writes ready.
C5_ReadyOnlyAfterPipeline ==
  [][ /\ \A r \in Runs : WroteReady(r) => PipelineCompleted(run[r])
      /\ (doc_status' = "ready" /\ doc_status # "ready")
           => \E r \in Runs : WroteReady(r) /\ PipelineCompleted(run[r])
      /\ \A r \in Runs : (run[r].pc = "chunk" /\ chunk_document(run[r].pages) = <<>>)
                            => run'[r].pc \in {"chunk", "done", "escaped"} ]_vars

C5_Witness ==
  \E r \in Runs : run[r].pc = "summarize" /\ doc_status = "ready" /\ Len(run[r].chunks) = 2

\* C6: a run whose embedding call fails ends with the document in error, with
\* a non-empty error_message of at most 500 characters, and with no chunk row
\* written by that run.
C6_EmbedFailureLeavesError ==
  [][ \A r \in Runs :
        (run[r].pc = "embed" /\ run'[r].pc \in {"done", "escaped"}) =>
          /\ doc_status' = "error"
          /\ error_message' # <<>>
          /\ error_message'[1] \in 1..MaxErrLen
          /\ \A row \in chunk_rows' : row.run # r ]_vars

\* C7: every run that has ended left the document in ready or error, and no
\* exception left the run.
C7_RunEndsInReadyOrError ==
  /\ \A r \in Runs : run[r].pc # "escaped"
  /\ (/\ \A r \in Runs : run[r].pc \in {"idle", "done", "escaped"}
      /\ \E r \in Runs : run[r].pc \in {"done", "escaped"})
       => doc_status \in {"ready", "error"}

\* C8: the document is created pending, and every write of ready or error
\* happens while the status is processing.
C8_TerminalWritesFromProcessing ==
  [][ /\ (doc_status = "absent" /\ doc_status' # "absent") => doc_status' = "pending"
      /\ \A r \in Runs : (WroteReady(r) \/ WroteError(r)) => doc_status = "processing" ]_vars

\* the place of an event in the order of the document-grounded stream; 0 for
\* an event that has no place in it
Rank(e) ==
  IF e.type = "status" THEN
    CASE e.stage = "reading_document" -> 1
      [] e.stage = "checking_rag_db" -> 2
      [] e.stage = "selecting_sources" -> 3
      [] e.stage = "preparing_highlight" -> 4
      [] e.stage = "writing_answer" -> 6
      [] OTHER -> 0
  ELSE CASE e.type = "highlight" -> 5
         [] e.type = "answer_token" -> 7
         [] e.type = "done" -> 8
         [] OTHER -> 0

\* the stages that are never skipped
MandatoryRanks == {1, 2, 3, 6}

Positions == 1..Len(sd_events)

\* C9: for a document-grounded question the events come in the order
\* reading_document, checking_rag_db, selecting_sources, optionally
\* preparing_highlight followed by at most one highlight, writing_answer,
\* answer tokens, done: no stage but the highlight stage is skipped, no status
\* follows an answer token, and done ends the completed stream.
C9_DocumentStreamOrder ==
  (sd_pc # "off" /\ ~sd_in.is_summary) =>
    /\ \A i \in Positions : Rank(sd_events[i]) # 0
    /\ \A i, j \in Positions :
         i < j => \/ Rank(sd_events[i]) < Rank(sd_events[j])
                  \/ (sd_events[i].type = "answer_token" /\ sd_events[j].type = "answer_token")
    /\ \A i \in Positions : \A m \in MandatoryRanks :
         m < Rank(sd_events[i]) => \E j \in 1..(i - 1) : Rank(sd_events[j]) = m
    /\ \A i \in Positions :
         sd_events[i].type = "highlight" =>
           i > 1 /\ sd_events[i - 1] = Status("preparing_highlight")
    /\ (\E i \in Positions : sd_events[i] = Done) <=> sd_pc = "closed"

C9_Witness ==
  /\ sd_pc = "closed"
  /\ ~sd_in.is_summary
  /\ \E i \in Positions : sd_events[i].type = "highlight"
  /\ Sent = 3

\* C10: a stream holds at most one highlight event; it is there only when the
\* classifier answered needs_highlight with a field label and the Field Locator
\* returned a location for that label, which the event carries; it comes after
\* the selecting_sources status and before the first answer token.
C10_HighlightOnlyWhenLocated ==
  sd_pc # "off" =>
    /\ Cardinality({i \in Positions : sd_events[i].type = "highlight"}) <= 1
    /\ \A i \in Positions :
         sd_events[i].type = "highlight" =>
           LET resp == sd_in.highlight_response
               label == resp.value.field_label
           IN /\ resp.kind \in {"json", "fenced_json"}
              /\ resp.value.t = "object"
              /\ resp.value.needs_highlight = "true"
              /\ label.t = "string" /\ label.s # <<>>
              /\ find_field_location(label.s) = <<sd_events[i].highlight>>
              /\ \E j \in 1..(i - 1) : sd_events[j] = Status("selecting_sources")
              /\ \A j \in Positions : sd_events[j].type = "answer_token" => i < j

C10_Witness ==
  /\ sd_pc = "closed"
  /\ \E i \in Positions :
       /\ sd_events[i].type = "highlight"
       /\ sd_events[i].highlight.label = <<"Y", "o", "u", "r", " ", "s", "o", "c", "i", "a", "l", " ", "s", "e", "c", "u", "r", "i", "t", "y", " ", "n", "u", "m", "b", "e", "r">>
  /\ Sent = 3

\* ------------------------------------------------------------------------
\* Both flows: the end of a stream
\* ------------------------------------------------------------------------
DoneCount(events) == Cardinality({i \in 1..Len(events) : events[i] = Done})

EndsWithOneDone(events) ==
  /\ events # <<>>
  /\ events[Len(events)] = Done
  /\ DoneCount(events) = 1

\* C11: in both flows a stream that completes without failure holds exactly
\* one done event, and that event is its last event.
C11_DoneEndsCompletedStream ==
  /\ sd_pc = "closed" => EndsWithOneDone(sd_events)
  /\ sg_pc = "closed" => EndsWithOneDone(sg_events)

C11_Witness ==
  /\ sg_pc = "closed"
  /\ Emitted("plan_token") = 2
  /\ Emitted("answer_token") = 3
  /\ EndsWithOneDone(sg_events)

\* C12: in both flows a stream whose answer generation raises ends without a
\* done event, so a stream that holds done holds every piece of the answer.
C12_NoDoneAfterFailure ==
  /\ sd_pc = "failed" => DoneCount(sd_events) = 0
  /\ sg_pc = "failed" => DoneCount(sg_events) = 0
  /\ DoneCount(sd_events) > 0 => Sent = Len(sd_in.answer)
  /\ DoneCount(sg_events) > 0 => Emitted("answer_token") = Len(sg_in.answer)

C12_Witness ==
  /\ sg_pc = "failed"
  /\ Emitted("answer_token") = 2
  /\ Len(sg_in.answer) = 3
  /\ DoneCount(sg_events) = 0

\* the classification call raised, returned no JSON, or returned JSON that
\* is no object
ClassificationFailed(resp) ==
  resp.kind \in {"raises", "not_json"} \/ resp.value.t # "object"

\* C13: whatever the classification call does (it raises, returns no JSON, or
\* returns JSON that is not the expected object), the document-grounded stream
\* holds no highlight and goes on with the writing_answer status: it does not
\* end before that status.
C13_ClassificationFailureIsSwallowed ==
  (sd_pc # "off" /\ ClassificationFailed(sd_in.highlight_response)) =>
    /\ \A i \in Positions : sd_events[i].type # "highlight"
    /\ sd_pc = "failed" => \E i \in Positions : sd_events[i] = Status("writing_answer")

\* ------------------------------------------------------------------------
\* General questions
\* ------------------------------------------------------------------------
AnswerTokens(pieces) == [i \in 1..Len(pieces) |-> AnswerToken(pieces[i])]
PlanEvents(pieces) ==
  [i \in 1..Len(PlanTokens(pieces)) |-> PlanToken(PlanTokens(pieces)[i])]

\* thinking start, the plan tokens, thinking end, status_update, the answer
\* tokens, done
ExpectedGeneralStream(in) ==
  <<Thinking("start")>> \o PlanEvents(in.plan)
    \o <<Thinking("end"), StatusUpdate>> \o AnswerTokens(in.answer) \o <<Done>>

IsPrefix(s, t) == Len(s) <= Len(t) /\ s = SubSeq(t, 1, Len(s))

\* C14: stream_general_tax_question yields thinking start, the plan tokens,
\* thinking end, status_update, the answer tokens and done, in this order, with
\* one thinking start, one thinking end, and nothing but answer tokens between
\* status_update and done.
C14_GeneralStreamOrder ==
  sg_pc # "off" =>
    /\ IsPrefix(sg_events, ExpectedGeneralStream(sg_in))
    /\ sg_pc = "closed" => sg_events = ExpectedGeneralStream(sg_in)

AssistantMessages ==
  {i \in 1..Len(gc_messages) : gc_messages[i].role = "assistant"}

\* C15: the assistant message of a general chat turn is stored only after the
\* generator's stream was consumed to its end, with the text accumulated from
\* the whole stream; a turn that failed or whose client disconnected stores
\* none.
C15_AssistantStoredOnlyAfterStream ==
  /\ \A i \in AssistantMessages :
       /\ sg_pc = "closed"
       /\ gc_pc = "finished"
       /\ gc_messages[i].content = full_answer
  /\ Cardinality(AssistantMessages) <= 1
  /\ gc_pc \in {"failed", "disconnected"} => AssistantMessages = {}

C15_Witness ==
  /\ gc_pc = "disconnected"
  /\ gc_lines = <<ChatIdLine>>
  /\ gc_messages = <<UserMessage>>

\* generate() stopped, and neither the plan model, the answer model nor the
\* store raised, and the client stayed
TurnOverWithoutFailure ==
  /\ gc_pc \in {"failed", "finished"}
  /\ ~sg_in.plan_raises
  /\ sg_pc \notin {"failed", "closed"} \/ gc_pc = "finished"

\* C16: a general chat turn whose plan and answer generation succeed and whose
\* client stays connected ends normally with exactly one assistant message
\* stored, whose content is the complete answer text.
C16_SuccessfulTurnStoresAnswer ==
  TurnOverWithoutFailure =>
    /\ gc_pc = "finished"
    /\ Cardinality(AssistantMessages) = 1
    /\ \A i \in AssistantMessages : gc_messages[i].content = Flatten(sg_in.answer)

\* the texts of the token lines sent to the client, in order
SentTexts ==
  LET lines == SelectSeq(gc_lines, LAMBDA l : "text" \in DOMAIN l)
  IN [i \in 1..Len(lines) |-> lines[i].text]

StreamedTexts ==
  LET tokens == SelectSeq(sd_events, LAMBDA e : e.type = "answer_token")
  IN [i \in 1..Len(tokens) |-> tokens[i].text]

\* C18: for the same question, chunks and language the answer tokens of
\* stream_document_chat concatenate to the answer of the non-streaming
\* operation (summarize_document_sections in summary mode, else
\* answer_question), for every chunk list, the empty one included.
C18_StreamEqualsNonStreaming ==
  sd_pc = "closed" =>
    Flatten(StreamedTexts) =
      IF sd_in.is_summary THEN summarize_document_sections(sd_in)
      ELSE answer_question(sd_in)

\* C19: in a general chat stream whose session was created by the request,
\* the first line sent is the line with the chat id, and it is sent before
\* the generator yields any thinking, plan, status or answer event.
C19_ChatIdLineFirst ==
  (sg_pc # "off" /\ sg_in.caller = "general_chat" /\ sg_in.session = "new") =>
    /\ gc_lines # <<>> => gc_lines[1] = ChatIdLine
    /\ sg_events # <<>> => gc_lines # <<>>

C19_Witness ==
  /\ sg_pc # "off"
  /\ sg_in.caller = "general_chat"
  /\ sg_in.session = "new"
  /\ gc_lines = <<ChatIdLine>>
  /\ sg_events = <<Thinking("start")>>

EventTypes ==
  {"status", "thinking", "plan_token", "status_update", "highlight",
   "answer_token", "done"}

\* C20: every line of the streaming answer response is a JSON object whose
\* type field is one of status, thinking, plan_token, status_update,
\* highlight, answer_token, done.
C20_EveryLineIsTyped ==
  \A i \in 1..Len(gc_lines) :
    "type" \in DOMAIN gc_lines[i] /\ gc_lines[i].type \in EventTypes

\* C21: a chat or summarize request for an unknown document is answered 404
\* and one for a document whose status is not ready is answered 400; in both
\* cases the only call made is the selection of the document: no chat session
\* is created, no message stored, no retrieval or generation run.
C21_UnknownOrUnreadyDocumentIsRejected ==
  (op_pc # "off" /\ op_in.op \in {"chat", "summarize"} /\ doc_status # "ready") =>
    /\ \A i \in 1..Len(op_log) : op_log[i] = "select_document"
    /\ Len(op_log) <= 1
    /\ chats = 0
    /\ (op_pc = "done" /\ op_in.fails # "select_document") =>
         op_out = [status |-> IF doc_status = "absent" THEN 404 ELSE 400]

C21_Witness ==
  /\ op_pc = "done"
  /\ op_in.op = "summarize"
  /\ doc_status = "processing"
  /\ op_in.fails = "insert_chat"
  /\ op_out = [status |-> 400]
  /\ op_log = <<"select_document">>

\* C22: when the call to the embedding service fails with a non-transient
\* error (malformed input), embed_texts and embed_query have made exactly one
\* call and the failure has reached the caller: there is no retry.
C22_NonTransientFailureIsNotRetried ==
  (op_pc # "off" /\ op_in.op \in {"embed_texts", "embed_query"}
     /\ op_in.outcomes[1] = "malformed") =>
    /\ Len(op_log) <= 1
    /\ Len(op_log) = 1 => op_pc = "done" /\ op_out.outcome = "raised"

\* C23: on transient failures embed_texts and embed_query call the embedding
\* service at most 3 times for one invocation; they return the result of the
\* first successful attempt, and after a third failed attempt they stop and
\* raise to the caller.
C23_AtMostThreeAttempts ==
  (op_pc # "off" /\ op_in.op \in {"embed_texts", "embed_query"}
     /\ \A i \in 1..Len(op_log) : op_log[i] \in {"ok", "transient"}) =>
    /\ Len(op_log) <= 3
    /\ \A i \in 1..(Len(op_log) - 1) : op_log[i] = "transient"
    /\ op_pc = "done" <=> (op_log # <<>> /\ (Len(op_log) = 3 \/ op_log[Len(op_log)] = "ok"))
    /\ op_pc = "done" =>
         IF op_log[Len(op_log)] = "ok"
         THEN op_out = [outcome |-> "returned",
                        value |-> IF op_in.op = "embed_texts"
                                  THEN << [of |-> op_in.text] >> ELSE [of |-> op_in.text]]
         ELSE op_out.outcome = "raised"

C23_Witness ==
  /\ op_pc = "done"
  /\ op_in.op = "embed_query"
  /\ op_log = <<"transient", "transient", "transient">>
  /\ op_in.outcomes[4] = "ok"
  /\ op_out.outcome = "raised"

\* C24: for N chunks embed_texts is called on consecutive batches of at most
\* 100 texts that follow the chunk order, and the N rows built carry, for
\* each chunk index i, the text of chunk i and the vector returned for it.
C24_BatchesKeepOrder ==
  (op_pc = "done" /\ op_in.op = "embed_and_insert") =>
    LET chunks == SomeChunks(op_in.n)
        sizes == [b \in 1..Len(op_log) |-> Len(op_log[b])]
    IN /\ \A b \in 1..Len(op_log) : sizes[b] >= 1 /\ sizes[b] <= 100
       /\ \A b \in 1..(Len(op_log) - 1) : sizes[b] = 100
       /\ \A b \in 1..Len(op_log) : \A j \in 1..sizes[b] :
            op_log[b][j] = chunks[100 * (b - 1) + j].text
       /\ op_in.n <= 100 * Len(op_log) /\ op_in.n > 100 * (Len(op_log) - 1)
       /\ Cardinality(op_out) = op_in.n
       /\ \A i \in 1..op_in.n :
            \E row \in op_out :
              /\ row.chunk_index = i - 1
              /\ row.chunk_text = chunks[i].text
              /\ row.embedding = [of |-> chunks[i].text]

C24_Witness ==
  /\ op_pc = "done"
  /\ op_in.op = "embed_and_insert"
  /\ op_in.n = 201
  /\ Len(op_log) = 3
  /\ Len(op_log[3]) = 1
  /\ Cardinality(op_out) = 201

\* C25: retrieve_chunks returns at most top_k results, each a chunk of the
\* requested document whose similarity is at least the threshold, in
\* descending order of similarity; when no chunk clears the threshold it
\* returns the empty list and raises nothing.
C25_RetrieveChunksTopK ==
  (op_pc = "done" /\ op_in.op = "retrieve_chunks" /\ op_in.fails = "none") =>
    LET found == op_out.value
        clearing == {i \in 1..Len(op_in.sims) : op_in.sims[i] >= 40}
    IN /\ op_out.outcome = "returned"
       /\ Len(found) <= op_in.top_k
       /\ \A i \in 1..Len(found) :
            /\ found[i].document_id = op_in.document_id
            /\ found[i].chunk \in chunk_rows
            /\ found[i].similarity = op_in.sims[found[i].chunk.chunk_index + 1]
            /\ found[i].similarity >= 40
       /\ \A i \in 1..(Len(found) - 1) : found[i].similarity >= found[i + 1].similarity
       /\ (clearing = {} \/ op_in.document_id # "D") => found = <<>>

C25_Witness ==
  /\ op_pc = "done"
  /\ op_in.op = "retrieve_chunks"
  /\ op_in.fails = "none"
  /\ op_in.document_id = "D"
  /\ Len(op_in.sims) = 12
  /\ op_in.top_k = 10
  /\ Len(op_out.value) = 10
  /\ op_out.value[1].similarity = 44
  /\ op_out.value[10].similarity = 41

\* C26: retrieve_all_chunks returns every chunk stored for the document and
\* no chunk of another document, strictly ordered by chunk index ascending.
C26_RetrieveAllIsStrictlyOrdered ==
  LET found == retrieve_all_chunks(document_chunks(chunk_rows), "D")
  IN /\ {found[i] : i \in 1..Len(found)} = {[document_id |-> "D", chunk |-> r] : r \in chunk_rows}
     /\ Len(found) = Cardinality(chunk_rows)
     /\ \A i \in 1..(Len(found) - 1) :
          found[i].chunk.chunk_index < found[i + 1].chunk.chunk_index

\* the chunks made from page number p, in index order
PageChunks(p) == SelectSeq(op_out, LAMBDA c : c.page = p)

\* C27: chunk_document gives its chunks the index values 0..N-1 without gap
\* or repeat, in page order and within a page in text order; a page with
\* empty text contributes no index and an empty page list gives no chunk.
C27_IndexesAreSequential ==
  (op_pc = "done" /\ op_in.op = "chunk_document") =>
    LET size == op_in.sizes[1]
        stride == op_in.sizes[1] - op_in.sizes[2]
    IN /\ \A i \in 1..Len(op_out) : op_out[i].index = i - 1
       /\ \A i \in 1..(Len(op_out) - 1) : op_out[i].page <= op_out[i + 1].page
       /\ \A k \in 1..Len(op_in.pages) :
            LET text == Strip(op_in.pages[k].text)
                made == PageChunks(op_in.pages[k].page)
            IN /\ op_in.pages[k].text = <<>> => made = <<>>
               /\ \A j \in 1..Len(made) :
                    made[j].text = SubSeq(text, (j - 1) * stride + 1,
                                          Min((j - 1) * stride + size, Len(text)))
       /\ op_in.pages = <<>> => op_out = <<>>

C27_Witness ==
  /\ op_pc = "done"
  /\ op_in.op = "chunk_document"
  /\ op_in.sizes = <<3, 1>>
  /\ Len(op_out) = 4
  /\ op_out[3].index = 2
  /\ op_out[3].page = 3
  /\ op_out[2].text = <<"c", "d", "e">>

\* C28: every chunk's text comes from exactly one page, whose page number
\* and field map are the chunk's metadata; the first chunk of a page starts
\* at the start of that page's text (no overlap is carried in from the page
\* before), and a page whose text is empty or only whitespace yields no chunk.
C28_ChunkComesFromOnePage ==
  (op_pc = "done" /\ op_in.op = "chunk_document") =>
    /\ \A i \in 1..Len(op_out) :
         \E k \in 1..Len(op_in.pages) :
           /\ op_out[i].page = op_in.pages[k].page
           /\ op_out[i].form_fields = op_in.pages[k].fields
           /\ op_out[i].text # <<>>
           /\ IsSubstr(op_out[i].text, op_in.pages[k].text)
           /\ \A o \in 1..Len(op_in.pages) : \A j \in 1..Len(op_out[i].text) :
                o # k => ~IsSubstr(<<op_out[i].text[j]>>, Strip(op_in.pages[o].text))
    /\ \A k \in 1..Len(op_in.pages) :
         LET text == Strip(op_in.pages[k].text)
             made == PageChunks(op_in.pages[k].page)
         IN IF \A j \in 1..Len(op_in.pages[k].text) : op_in.pages[k].text[j] \in Whitespace
            THEN made = <<>>
            ELSE made # <<>> /\ made[1].text = SubSeq(text, 1, Len(made[1].text))

C28_Witness ==
  /\ op_pc = "done"
  /\ op_in.op = "chunk_document"
  /\ op_in.sizes = <<3, 2>>
  /\ Len(op_in.pages) = 3
  /\ op_in.pages[2].text = <<Blank, "\n">>
  /\ PageChunks(2) = <<>>
  /\ Len(PageChunks(1)) = 3
  /\ PageChunks(3)[1] = [text |-> <<"v", "w", "x">>, index |-> 3, page |-> 3,
                         form_fields |-> <<>>]

\* the texts of the chunks, in order, each one after the first without its
\* first overlap characters
RECURSIVE Rebuilt(_, _, _)
Rebuilt(made, first, overlap) ==
  IF made = <<>> THEN <<>>
  ELSE (IF first THEN Head(made).text
        ELSE SubSeq(Head(made).text, overlap + 1, Len(Head(made).text)))
         \o Rebuilt(Tail(made), FALSE, overlap)

\* C29: the chunk texts of a page, joined in index order with the overlap
\* regions removed, are the extracted text of the page: no character is lost
\* or added.
C29_ChunksRebuildPageText ==
  (op_pc = "done" /\ op_in.op = "chunk_document") =>
    \A k \in 1..Len(op_in.pages) :
      Rebuilt(PageChunks(op_in.pages[k].page), TRUE, op_in.sizes[2]) = op_in.pages[k].text

\* the lower-cased, trimmed label of the call, and the catalog entries it
\* matches in each of the three ways
LabelAsked == Strip(Lower(op_in.field_label))
KeyEquals == {i \in 1..Len(FORM_1040_FIELDS) : FORM_1040_FIELDS[i].key = LabelAsked}
KeyOverlaps ==
  {i \in 1..Len(FORM_1040_FIELDS) :
     \/ IsSubstr(LabelAsked, FORM_1040_FIELDS[i].key)
     \/ IsSubstr(FORM_1040_FIELDS[i].key, LabelAsked)}
DisplayLabelContains ==
  {i \in 1..Len(FORM_1040_FIELDS) : IsSubstr(LabelAsked, Lower(FORM_1040_FIELDS[i].label))}

\* the location of the first catalog entry among `hits`
FirstOf(hits) ==
  LET i == CHOOSE h \in hits : \A o \in hits : h <= o
  IN << [page |-> FORM_1040_FIELDS[i].page, bbox |-> FORM_1040_FIELDS[i].bbox,
         label |-> FORM_1040_FIELDS[i].label, method |-> "template_map"] >>

\* C30: find_field_location returns the entry whose key equals the
\* lower-cased, trimmed label; failing that the first entry, in catalog
\* order, whose key contains the label or is contained in it; failing that
\* the first entry whose display label contains the label. An exact key match
\* wins over a substring match with a key that comes earlier in the catalog.
C30_ExactThenSubstringThenLabel ==
  (op_pc = "done" /\ op_in.op = "find_field_location") =>
    op_out = IF KeyEquals # {} THEN FirstOf(KeyEquals)
             ELSE IF KeyOverlaps # {} THEN FirstOf(KeyOverlaps)
             ELSE IF DisplayLabelContains # {} THEN FirstOf(DisplayLabelContains)
             ELSE <<>>

C30_Witness ==
  /\ op_pc = "done"
  /\ op_in.op = "find_field_location"
  /\ op_in.field_label = <<"S", "p", "o", "u", "s", "e", " ", "S", "S", "N">>
  /\ KeyEquals = {8}
  /\ 4 \in KeyOverlaps
  /\ op_out = FirstOf({8})
  /\ op_out # FirstOf({4})

\* C31: find_field_location returns None for every label that names no field
\* of the template: a label that matches in none of the three stages, and a
\* label that is empty or only whitespace.
C31_NoFieldNamedGivesNone ==
  (op_pc = "done" /\ op_in.op = "find_field_location") =>
    ((LabelAsked = <<>> \/ (KeyEquals = {} /\ KeyOverlaps = {} /\ DisplayLabelContains = {}))
       => op_out = <<>>)

\* what the locator answers for a label when asked about document "D" with
\* an empty store
AnswerFor(label) == find_field_location(label)

C33_AtMostOneAutoSummary == summaries <= 1

\* the tasks of the filing year that came from the questionnaire, without
\* their ids and status
QuestionnaireTasks ==
  {[group |-> t.group, title |-> t.title, description |-> t.description,
    form_code |-> t.form_code, sort_order |-> t.sort_order] :
     t \in {u \in tasks : u.source = "questionnaire" /\ u.year = 2024}}

\* C34: a sync that follows a successful sync, the questionnaire unchanged in
\* between, creates and deletes nothing, updates every recommended task, and
\* leaves the set of questionnaire tasks with their group, title,
\* description, form code and order as it was.
C34_SecondSyncIsIdempotent ==
  [][(/\ sync_response.op = "sync_tasks"
      /\ sync_response.status = 200
      /\ sync_response'.op = "sync_tasks")
       => /\ sync_response'.status = 200
          /\ sync_response'.created = 0
          /\ sync_response'.deleted = 0
          /\ sync_response'.updated = Len(build_tasks(questionnaire[1]))
          /\ QuestionnaireTasks' = QuestionnaireTasks]_vars

C34_Witness ==
  /\ sync_response.op = "sync_tasks"
  /\ sync_response.status = 200
  /\ sync_response.created = 0
  /\ sync_response.deleted = 0
  /\ sync_response.updated = 10
  /\ Cardinality(QuestionnaireTasks) = 10
  /\ questionnaire[1].residency_status = "unsure"

\* the tasks that did not come from the questionnaire
UserTasks == {t \in tasks : t.source # "questionnaire"}

\* C35: no step of sync_tasks_from_questionnaire updates or deletes a task
\* whose source is not questionnaire: the tasks the user created are the same
\* before and after every sync, whatever the questionnaire has become.
C35_SyncLeavesUserTasks == [][UserTasks' = UserTasks]_vars

C35_Witness ==
  /\ sync_response.op = "sync_tasks"
  /\ sync_response.status = 200
  /\ sync_response.deleted > 0
  /\ sync_response.updated > 0
  /\ Cardinality(UserTasks) = 2
  /\ \E t \in UserTasks : \E u \in tasks :
       u.source = "questionnaire" /\ u.group = t.group /\ u.title = t.title

\* C36: once a run has written ready, no step of its auto-summary, failed or
\* not, writes the status or the error message, and no exception leaves the
\* run: the status that run wrote is not moved to error by it.
C36_SummaryFailureKeepsReady ==
  [][ \A r \in Runs :
        (run[r].pc \in {"summarize", "summary_insert"} /\ run'[r] # run[r]) =>
          /\ doc_status' = doc_status
          /\ error_message' = error_message
          /\ run'[r].pc \in {"summary_insert", "done"} ]_vars

C36_Witness ==
  /\ \A r \in Runs : run[r].pc \in {"idle", "done"}
  /\ \E r \in Runs : run[r].pc = "done"
  /\ doc_status = "ready"
  /\ error_message = <<>>
  /\ chats = 1
  /\ summaries = 0
  /\ chunk_rows # {}

\* C37: the write of ready leaves error_message as it is, so a ready document
\* can carry the message of an earlier failed run.
C37_ReadyKeepsErrorMessage ==
  [][ \A r \in Runs :
        (run[r].pc = "mark_ready" /\ run'[r].pc = "summarize") =>
          /\ doc_status' = "ready"
          /\ error_message' = error_message ]_vars

C37_Witness ==
  /\ doc_status = "ready"
  /\ error_message = <<MaxErrLen>>
  /\ \E r \in Runs : run[r].pc = "summarize"

\* C38: when the plan model raises in the general flow, no plan_token follows
\* the ones already streamed, and the stream goes on with thinking end,
\* status_update, the answer tokens and done.
C38_PlanFailureIsSwallowed ==
  (sg_pc \notin {"off", "failed"} /\ sg_in.plan_raises) =>
    /\ IsPrefix(sg_events,
                <<Thinking("start")>> \o PlanEvents(sg_in.plan)
                  \o <<Thinking("end"), StatusUpdate>>
                  \o AnswerTokens(sg_in.answer) \o Closing)
    /\ sg_pc = "closed" =>
         /\ Emitted("plan_token") = Len(PlanTokens(sg_in.plan))
         /\ Emitted("answer_token") = Len(sg_in.answer)
         /\ sg_events[Len(sg_events)] = Done

C38_Witness ==
  /\ sg_pc = "closed"
  /\ sg_in.plan_raises
  /\ sg_in.plan = << <<"p">> >>
  /\ sg_in.answer # <<>>
  /\ sg_events[2] = PlanToken(<<"p">>)
  /\ sg_events[3] = Thinking("end")
  /\ sg_events[4] = StatusUpdate

QuestionCount(history) ==
  Cardinality({i \in 1..Len(history) : history[i] = UserMessage})

\* C39: in a general chat turn the history given to the plan call and the
\* history given to the answer call hold the current question exactly once,
\* whether the session is new or existing.
C39_QuestionOnceInHistory ==
  (sg_pc # "off" /\ sg_in.caller = "general_chat") =>
    /\ sg_pc # "start" => QuestionCount(PlanCallHistory(sg_in)) = 1
    /\ sg_pc \in {"answer", "finishing", "returning", "closed", "failed"} =>
         QuestionCount(AnswerCallHistory(sg_in)) = 1

====
